---- MODULE Spec2Model ----
(***************************************************************************)
(* Model of the NFS log scanner of salam-monitoring (package nfs):         *)
(* Scanner.ScanLogsForDate and the functions it calls, over a log tree     *)
(* root/<source>/<date>/<workflow>/<artifact file>.                        *)
(*                                                                         *)
(* A path is the tuple of its components below the root.  A file's         *)
(* content is the sequence of its lines, a line is the sequence of its     *)
(* characters (one-character strings), so that strings.Contains and        *)
(* strings.TrimSpace are computed on characters.  Names of sources and     *)
(* workflows are strings; NameBytes gives their bytes, on which Go's       *)
(* string comparison is computed.                                          *)
(***************************************************************************)
EXTENDS Integers, Sequences, FiniteSets, TLC

VARIABLES
    fs,         \* the log tree: path -> [kind, lines, readable]
    detected,   \* outcome of the last detectErrors call, or NoCall
    inspected,  \* outcome of the last scanWorkflow call, or NoCall
    scanned,    \* outcome of the last ScanLogsForDate call, or NoCall
    prevScan,   \* what the call before it returned if it was for the same date
    listing,    \* the directory listings the last ScanLogsForDate call was given
    handled,    \* outcome of the last handleNFSLogs request, or NoCall
    searched,   \* outcome of the last SearchLogs call, or NoCall
    calls,      \* the ScanLogsForDate calls in progress, one per goroutine
    read,       \* outcome of the last GetLogContent or GetLogTail call, or NoCall
    loaded,     \* the Config LoadConfig returned and what it was loaded from
    race        \* a ScanLogsForDate call in progress while the tree changes

vars == <<fs, detected, inspected, scanned, prevScan, listing, handled,
          searched, calls, read, loaded, race>>

NoCall == [called |-> FALSE]

-----------------------------------------------------------------------------
(* Bounds of the model *)

\* lines per file in the files detectErrors is exercised on
MaxLines == 2
\* workflow directories in the tree ScanLogsForDate is exercised on
MaxWorkflows == 3

-----------------------------------------------------------------------------
(* Strings *)

WhiteSpace == {" ", "\t"}

\* strings.TrimSpace, leading part
RECURSIVE TrimLeft(_)
TrimLeft(s) ==
    IF s = <<>> \/ Head(s) \notin WhiteSpace THEN s ELSE TrimLeft(Tail(s))

\* strings.TrimSpace, trailing part
RECURSIVE TrimRight(_)
TrimRight(s) ==
    IF s = <<>> \/ s[Len(s)] \notin WhiteSpace
    THEN s
    ELSE TrimRight(SubSeq(s, 1, Len(s) - 1))

TrimSpace(s) == TrimRight(TrimLeft(s))

\* strings.Contains(s, substr)
Contains(s, substr) ==
    \E i \in 1..(Len(s) - Len(substr) + 1) :
        SubSeq(s, i, i + Len(substr) - 1) = substr

\* the bytes of the names used for sources and workflows
NameBytes ==
    [n \in {"B", "a", "job10", "job2"} |->
        CASE n = "B"     -> <<66>>
          [] n = "a"     -> <<97>>
          [] n = "job10" -> <<106, 111, 98, 49, 48>>
          [] n = "job2"  -> <<106, 111, 98, 50>>]

\* Go's s < t on byte sequences: bytewise lexicographic order
RECURSIVE BytesLess(_, _)
BytesLess(s, t) ==
    IF t = <<>> THEN FALSE
    ELSE IF s = <<>> THEN TRUE
    ELSE IF Head(s) # Head(t) THEN Head(s) < Head(t)
    ELSE BytesLess(Tail(s), Tail(t))

\* Go's a < b on the strings a and b
StrLess(a, b) == BytesLess(NameBytes[a], NameBytes[b])

-----------------------------------------------------------------------------
(* Lines and file contents *)

\* a line longer than bufio.Scanner's buffer: Scan() fails on it
TooLong == <<"<line longer than the scanner buffer>">>

errorPatterns ==
    << <<"E","R","R","O","R">>,
       <<"F","A","T","A","L">>,
       <<"E","x","c","e","p","t","i","o","n">>,
       <<"F","a","i","l","e","d">>,
       <<"f","a","i","l","u","r","e">>,
       <<"F","A","I","L","E","D">>,
       <<"e","r","r","o","r",":">>,
       <<"E","r","r","o","r",":">> >>

\* the lines the files of the model are made of
LineSet ==
    { <<>>,
      <<" ">>,
      <<" ","\t">>,
      <<"o","k">>,
      <<" ","o","k"," ">>,
      <<"x"," ","E","R","R","O","R">>,
      <<"F","A","T","A","L","!">>,
      <<"a",".","E","x","c","e","p","t","i","o","n",":">>,
      <<"F","a","i","l","e","d">>,
      <<"n","o"," ","f","a","i","l","u","r","e","s">>,
      <<"F","A","I","L","E","D">>,
      <<"e","r","r","o","r",":"," ","x">>,
      <<"E","r","r","o","r",":">>,
      <<"f","a","i","l","e","d">>,
      <<"e","x","c","e","p","t","i","o","n">>,
      <<"e","r","r","o","r">>,
      <<"E","r","r","o","r"," ",":">>,
      <<"f","a","t","a","l">>,
      TooLong }

\* all files of at most n lines
Files(n) == UNION { [1..k -> LineSet] : k \in 0..n }

-----------------------------------------------------------------------------
(* The file system, as the scanner sees it through package os *)

Dir == [kind |-> "dir", lines |-> <<>>, readable |-> TRUE]

File(lines, readable) == [kind |-> "file", lines |-> lines, readable |-> readable]

\* filepath.Join(dir, name)
Join(dir, name) == Append(dir, name)

\* os.Stat(path) returns no error
StatOk(fsys, path) == path \in DOMAIN fsys

\* os.IsNotExist(err) for the err of os.Stat(path)
IsNotExist(fsys, path) == path \notin DOMAIN fsys

\* os.Open(path) returns no error
OpenOk(fsys, path) == path \in DOMAIN fsys /\ fsys[path].readable

\* the names os.ReadDir(dir) returns
EntryNames(fsys, dir) ==
    { p[Len(p)] : p \in { q \in DOMAIN fsys :
                             /\ Len(q) = Len(dir) + 1
                             /\ SubSeq(q, 1, Len(dir)) = dir } }

-----------------------------------------------------------------------------
(* detectErrors *)

\* bufio.Scanner.Scan() succeeds on the i-th line
ScanOk(lines, i) == i <= Len(lines) /\ lines[i] # TooLong

\* as MatchesPattern, trying the first pattern only
MatchesPattern_FirstPatternOnly(line) == Contains(line, errorPatterns[1])

\* one line matches one of the error patterns
MatchesPattern(line) ==
    \E k \in 1..Len(errorPatterns) : Contains(line, errorPatterns[k])

\* the loop "for scanner.Scan() { ... }" from line i on;
\* nread is the number of lines Scan() has delivered
RECURSIVE PatternLoop(_, _)
PatternLoop(lines, i) ==
    IF ~ScanOk(lines, i)
    THEN [hasErrors |-> FALSE, err |-> i <= Len(lines), nread |-> i - 1]
    ELSE IF MatchesPattern(lines[i])
         THEN [hasErrors |-> TRUE, err |-> FALSE, nread |-> i]
         ELSE PatternLoop(lines, i + 1)

\* as FirstLineCheck, without the TrimSpace
FirstLineCheck_NoTrim(lines) ==
    IF ScanOk(lines, 1)
    THEN [hasErrors |-> Len(lines[1]) > 0, err |-> FALSE, nread |-> 1]
    ELSE [hasErrors |-> FALSE, err |-> 1 <= Len(lines), nread |-> 0]

\* the error.log branch: one Scan(), then TrimSpace of scanner.Text()
FirstLineCheck(lines) ==
    IF ScanOk(lines, 1)
    THEN [hasErrors |-> Len(TrimSpace(lines[1])) > 0, err |-> FALSE, nread |-> 1]
    ELSE [hasErrors |-> FALSE, err |-> 1 <= Len(lines), nread |-> 0]

detectErrors(fsys, filePath, logType) ==
    IF ~OpenOk(fsys, filePath)
    THEN [hasErrors |-> FALSE, err |-> TRUE, nread |-> 0]
    ELSE IF logType = "error.log"
         THEN FirstLineCheck(fsys[filePath].lines)
         ELSE PatternLoop(fsys[filePath].lines, 1)

-----------------------------------------------------------------------------
(* scanLogFile, determineWorkflowStatus, scanWorkflow *)

\* Size and ModTime of a LogEntry are copied from os.Stat and read by nothing
\* in the scanner; they are left out of the entry.
scanLogFile(fsys, source, date, workflow, logType, filePath) ==
    IF ~StatOk(fsys, filePath)
    THEN [err |-> TRUE]
    ELSE LET d == detectErrors(fsys, filePath, logType)
         IN  IF d.err
             THEN [err |-> TRUE]
             ELSE [err   |-> FALSE,
                   entry |-> [Source    |-> source,
                              Date      |-> date,
                              Workflow  |-> workflow,
                              LogType   |-> logType,
                              Content   |-> <<>>,
                              HasErrors |-> d.hasErrors,
                              FilePath  |-> filePath]]

hasRunLog(logs) == \E i \in 1..Len(logs) : logs[i].LogType = "run.log"

\* as determineWorkflowStatus, with the run.log check before the error check
determineWorkflowStatus_RunLogFirst(summary) ==
    IF Len(summary.Logs) = 0 THEN "No Logs"
    ELSE IF hasRunLog(summary.Logs) THEN "Completed"
    ELSE IF summary.HasErrors THEN "Failed"
    ELSE "In Progress"

determineWorkflowStatus(summary) ==
    IF summary.HasErrors THEN "Failed"
    ELSE IF Len(summary.Logs) = 0 THEN "No Logs"
    ELSE IF hasRunLog(summary.Logs) /\ ~summary.HasErrors THEN "Completed"
    ELSE "In Progress"

\* as logTypes, with a fourth file name
logTypes_WithDebug == <<"info.log", "error.log", "run.log", "debug.log">>

logTypes == <<"info.log", "error.log", "run.log">>

\* as scanOne, with HasErrors assigned from the entry instead of only set
scanOne_Assign(fsys, st, workflowPath, logType) ==
    LET logPath == Join(workflowPath, logType)
        r == scanLogFile(fsys, st.summary.Source, st.summary.Date,
                         st.summary.Workflow, logType, logPath)
    IN  IF IsNotExist(fsys, logPath) THEN st
        ELSE IF r.err THEN [st EXCEPT !.logged = Append(@, logPath)]
        ELSE [st EXCEPT !.summary.Logs = Append(@, r.entry),
                        !.summary.HasErrors = r.entry.HasErrors]

\* one iteration of the loop over logTypes; st.summary is the summary so far,
\* st.logged the paths logger.LogError was called for
scanOne(fsys, st, workflowPath, logType) ==
    LET logPath == Join(workflowPath, logType)
        r == scanLogFile(fsys, st.summary.Source, st.summary.Date,
                         st.summary.Workflow, logType, logPath)
    IN  IF IsNotExist(fsys, logPath) THEN st
        ELSE IF r.err THEN [st EXCEPT !.logged = Append(@, logPath)]
        ELSE [st EXCEPT !.summary.Logs = Append(@, r.entry),
                        !.summary.HasErrors = @ \/ r.entry.HasErrors]

\* as scanLoop, leaving the loop at the first artifact that fails
RECURSIVE scanLoop_Break(_, _, _, _)
scanLoop_Break(fsys, st, workflowPath, i) ==
    IF i > Len(logTypes) THEN st
    ELSE LET next == scanOne(fsys, st, workflowPath, logTypes[i])
         IN  IF Len(next.logged) > Len(st.logged) THEN next
             ELSE scanLoop_Break(fsys, next, workflowPath, i + 1)

RECURSIVE scanLoop(_, _, _, _)
scanLoop(fsys, st, workflowPath, i) ==
    IF i > Len(logTypes) THEN st
    ELSE scanLoop(fsys, scanOne(fsys, st, workflowPath, logTypes[i]),
                  workflowPath, i + 1)

\* as scanWorkflow, without the final status assignment
scanWorkflow_NoStatus(fsys, source, date, workflow) ==
    LET init == [summary |-> [Source    |-> source,
                              Date      |-> date,
                              Workflow  |-> workflow,
                              Logs      |-> <<>>,
                              HasErrors |-> FALSE,
                              Status    |-> "Unknown"],
                 logged  |-> <<>>]
        st == scanLoop(fsys, init, <<source, date, workflow>>, 1)
    IN  [err |-> FALSE, summary |-> st.summary, logged |-> st.logged]

\* as scanWorkflow, with the Date of the summary set to the day of the call
\* (the first date) instead of the date scanned
scanWorkflow_DateOfCall(fsys, source, date, workflow) ==
    LET init == [summary |-> [Source    |-> source,
                              Date      |-> "2025-01-10",
                              Workflow  |-> workflow,
                              Logs      |-> <<>>,
                              HasErrors |-> FALSE,
                              Status    |-> "Unknown"],
                 logged  |-> <<>>]
        st == scanLoop(fsys, init, <<source, date, workflow>>, 1)
    IN  [err     |-> FALSE,
         summary |-> [st.summary EXCEPT
                        !.Status = determineWorkflowStatus(st.summary)],
         logged  |-> st.logged]

scanWorkflow(fsys, source, date, workflow) ==
    LET workflowPath == <<source, date, workflow>>
        init == [summary |-> [Source    |-> source,
                              Date      |-> date,
                              Workflow  |-> workflow,
                              Logs      |-> <<>>,
                              HasErrors |-> FALSE,
                              Status    |-> "Unknown"],
                 logged  |-> <<>>]
        st == scanLoop(fsys, init, workflowPath, 1)
    IN  [err     |-> FALSE,
         summary |-> [st.summary EXCEPT
                        !.Status = determineWorkflowStatus(st.summary)],
         logged  |-> st.logged]

-----------------------------------------------------------------------------
(* Directory listings *)

\* the sequences that hold each element of set S once
Orderings(S) ==
    { q \in [1..Cardinality(S) -> S] : \A e \in S : \E i \in DOMAIN q : q[i] = e }

\* os.ReadDir(dir) returns no error
ReadDirOk(fsys, dir) ==
    dir \in DOMAIN fsys /\ fsys[dir].kind = "dir" /\ fsys[dir].readable

\* as dirsOf, without the IsDir test
dirsOf_All(fsys, dir, entries) == entries

\* the entries of entries that are directories, in the order of entries
dirsOf(fsys, dir, entries) ==
    SelectSeq(entries, LAMBDA n : fsys[Join(dir, n)].kind = "dir")

\* ls[dir] is the order in which os.ReadDir(dir) returns the entries
getSourceDirectories(fsys, ls) ==
    IF ~ReadDirOk(fsys, <<>>)
    THEN [err |-> TRUE, sources |-> <<>>]
    ELSE [err |-> FALSE, sources |-> dirsOf(fsys, <<>>, ls[<<>>])]

getWorkflowDirectories(fsys, datePath, ls) ==
    IF ~ReadDirOk(fsys, datePath)
    THEN [err |-> TRUE, workflows |-> <<>>]
    ELSE [err |-> FALSE, workflows |-> dirsOf(fsys, datePath, ls[datePath])]

-----------------------------------------------------------------------------
(* scanSourceForDate, ScanLogsForDate *)

\* the loop over workflows from index i on
RECURSIVE workflowLoop(_, _, _, _, _, _)
workflowLoop(fsys, source, date, workflows, i, acc) ==
    IF i > Len(workflows) THEN acc
    ELSE LET r == scanWorkflow(fsys, source, date, workflows[i])
         IN  workflowLoop(fsys, source, date, workflows, i + 1,
                 IF r.err
                 THEN [acc EXCEPT !.logged = Append(@ \o r.logged, workflows[i])]
                 ELSE [acc EXCEPT !.summaries = Append(@, r.summary),
                                  !.logged = @ \o r.logged])

\* as scanSourceForDate, without the os.Stat check of the date directory
scanSourceForDate_NoStat(fsys, source, date, ls) ==
    LET datePath == <<source, date>>
        w == getWorkflowDirectories(fsys, datePath, ls)
        none == [err |-> FALSE, summaries |-> <<>>, logged |-> <<>>]
    IN  IF w.err THEN [none EXCEPT !.err = TRUE]
        ELSE workflowLoop(fsys, source, date, w.workflows, 1, none)

scanSourceForDate(fsys, source, date, ls) ==
    LET datePath == <<source, date>>
        w == getWorkflowDirectories(fsys, datePath, ls)
        none == [err |-> FALSE, summaries |-> <<>>, logged |-> <<>>]
    IN  IF IsNotExist(fsys, datePath) THEN none
        ELSE IF w.err THEN [none EXCEPT !.err = TRUE]
        ELSE workflowLoop(fsys, source, date, w.workflows, 1, none)

\* as sourceLoop, leaving the loop at the first source that fails
RECURSIVE sourceLoop_Abort(_, _, _, _, _, _)
sourceLoop_Abort(fsys, date, ls, sources, i, acc) ==
    IF i > Len(sources) THEN acc
    ELSE LET r == scanSourceForDate(fsys, sources[i], date, ls)
         IN  IF r.err
             THEN [acc EXCEPT !.logged = Append(@, <<sources[i], date>>)]
             ELSE sourceLoop_Abort(fsys, date, ls, sources, i + 1,
                      [acc EXCEPT !.summaries = @ \o r.summaries,
                                  !.logged = @ \o r.logged])

\* the loop over sources from index i on
RECURSIVE sourceLoop(_, _, _, _, _, _)
sourceLoop(fsys, date, ls, sources, i, acc) ==
    IF i > Len(sources) THEN acc
    ELSE LET r == scanSourceForDate(fsys, sources[i], date, ls)
         IN  sourceLoop(fsys, date, ls, sources, i + 1,
                 IF r.err
                 THEN [acc EXCEPT !.logged = Append(@, <<sources[i], date>>)]
                 ELSE [acc EXCEPT !.summaries = @ \o r.summaries,
                                  !.logged = @ \o r.logged])

\* as less, comparing the sources only
less_SourceOnly(a, b) == StrLess(a.Source, b.Source)

\* the function given to sort.Slice
less(a, b) ==
    IF a.Source # b.Source
    THEN StrLess(a.Source, b.Source)
    ELSE StrLess(a.Workflow, b.Workflow)

\* what sort.Slice may leave in the slice: sort.Slice is not stable, so every
\* arrangement of s in which no element is less than one before it
sortSlice(s) ==
    { [i \in 1..Len(s) |-> s[q[i]]] : q \in
        { r \in Orderings(1..Len(s)) :
            \A i, j \in 1..Len(s) : i < j => ~less(s[r[j]], s[r[i]]) } }

\* as ScanLogsForDate, returning the error of a source that failed
ScanLogsForDate_FailOnSource(fsys, date, ls) ==
    LET g == getSourceDirectories(fsys, ls)
        acc == sourceLoop(fsys, date, ls, g.sources, 1,
                          [summaries |-> <<>>, logged |-> <<>>])
    IN  IF g.err \/ \E i \in DOMAIN acc.logged : Len(acc.logged[i]) = 2
        THEN { [called |-> TRUE, date |-> date, err |-> TRUE,
                summaries |-> <<>>, logged |-> acc.logged] }
        ELSE { [called |-> TRUE, date |-> date, err |-> FALSE,
                summaries |-> sorted, logged |-> acc.logged] :
               sorted \in sortSlice(acc.summaries) }

\* the outcomes of ScanLogsForDate(date) when os.ReadDir lists in the order ls
ScanLogsForDate(fsys, date, ls) ==
    LET g == getSourceDirectories(fsys, ls)
        acc == sourceLoop(fsys, date, ls, g.sources, 1,
                          [summaries |-> <<>>, logged |-> <<>>])
    IN  IF g.err
        THEN { [called |-> TRUE, date |-> date, err |-> TRUE,
                summaries |-> <<>>, logged |-> <<>>] }
        ELSE { [called |-> TRUE, date |-> date, err |-> FALSE,
                summaries |-> sorted, logged |-> acc.logged] :
               sorted \in sortSlice(acc.summaries) }

-----------------------------------------------------------------------------
(* GetLogContent, SearchLogs *)

UpperCase == <<"A","B","C","D","E","F","G","H","I","J","K","L","M",
               "N","O","P","Q","R","S","T","U","V","W","X","Y","Z">>
LowerCase == <<"a","b","c","d","e","f","g","h","i","j","k","l","m",
               "n","o","p","q","r","s","t","u","v","w","x","y","z">>

\* strings.ToLower(s)
ToLower(s) ==
    [i \in 1..Len(s) |->
        IF \E k \in 1..26 : UpperCase[k] = s[i]
        THEN LowerCase[CHOOSE k \in 1..26 : UpperCase[k] = s[i]]
        ELSE s[i]]

\* the least element of a non-empty set of integers
Least(S) == CHOOSE i \in S : \A j \in S : i <= j

\* as contentLoop, comparing the line count with <= instead of <
contentLoop_OffByOne(lines, maxLines) ==
    LET limit == IF maxLines = 0 \/ maxLines + 1 >= Len(lines)
                 THEN Len(lines) + 1
                 ELSE IF maxLines < 0 THEN 1 ELSE maxLines + 2
        failed == { i \in 1..limit : ~ScanOk(lines, i) }
        stop   == IF failed = {} THEN limit ELSE Least(failed)
    IN  [lines |-> SubSeq(lines, 1, stop - 1),
         err   |-> stop \in failed /\ stop <= Len(lines)]

\* the loop of GetLogContent over the lines of the file.  scanner.Scan() is
\* called for line i before the line count i - 1 is compared with maxLines,
\* so the loop ends at the first index where Scan fails (the end of the file
\* or a line too long, the latter being the error of scanner.Err()) or, Scan
\* having succeeded, where maxLines lines were kept already: limit is the
\* index at which the count ends the loop at the latest, stop the index at
\* which it does end
contentLoop(lines, maxLines) ==
    LET limit == IF maxLines = 0 \/ maxLines >= Len(lines)
                 THEN Len(lines) + 1
                 ELSE IF maxLines < 0 THEN 1 ELSE maxLines + 1
        failed == { i \in 1..limit : ~ScanOk(lines, i) }
        stop   == IF failed = {} THEN limit ELSE Least(failed)
    IN  [lines |-> SubSeq(lines, 1, stop - 1),
         err   |-> stop \in failed /\ stop <= Len(lines)]

GetLogContent(fsys, filePath, maxLines) ==
    IF ~OpenOk(fsys, filePath)
    THEN [lines |-> <<>>, err |-> TRUE]
    ELSE contentLoop(fsys[filePath].lines, maxLines)

\* as GetLogTail, returning the first lines instead of the last
GetLogTail_Head(fsys, filePath, lines) ==
    LET c == GetLogContent(fsys, filePath, 0)
        start == IF Len(c.lines) > lines THEN Len(c.lines) - lines ELSE 0
    IN  IF c.err
        THEN [lines |-> <<>>, err |-> TRUE, panic |-> FALSE]
        ELSE IF start > Len(c.lines)
        THEN [lines |-> <<>>, err |-> FALSE, panic |-> TRUE]
        ELSE [lines |-> SubSeq(c.lines, 1, Len(c.lines) - start),
              err |-> FALSE, panic |-> FALSE]

\* GetLogTail(filePath, lines); allLines[start:] panics (slice bounds out of
\* range) when start exceeds len(allLines)
GetLogTail(fsys, filePath, lines) ==
    LET c == GetLogContent(fsys, filePath, 0)
        start == IF Len(c.lines) > lines THEN Len(c.lines) - lines ELSE 0
    IN  IF c.err
        THEN [lines |-> <<>>, err |-> TRUE, panic |-> FALSE]
        ELSE IF start > Len(c.lines)
        THEN [lines |-> <<>>, err |-> FALSE, panic |-> TRUE]
        ELSE [lines |-> SubSeq(c.lines, start + 1, Len(c.lines)),
              err |-> FALSE, panic |-> FALSE]

\* ScanTodaysLogs, today being time.Now() formatted as a date
ScanTodaysLogs(fsys, today, ls) == ScanLogsForDate(fsys, today, ls)

\* the number of lines SearchLogs reads of each file
SearchMaxLines == 1000

\* as firstMatch, comparing the line and the keyword as they are written
firstMatch_CaseSensitive(content, keyword) ==
    LET hits == { i \in 1..Len(content) : Contains(content[i], keyword) }
    IN  IF hits = {} THEN 0 ELSE Least(hits)

\* the loop of SearchLogs over the lines of content, which breaks at the
\* first line that holds the keyword, letter case ignored: the index of that
\* line, 0 if there is none
firstMatch(content, keyword) ==
    LET lower == ToLower(keyword)
        hits  == { i \in 1..Len(content) :
                     Contains(ToLower(content[i]), lower) }
    IN  IF hits = {} THEN 0 ELSE Least(hits)

\* as searchEntry, without the break: one result for each matching line
searchEntry_AllLines(fsys, logEntry, keyword) ==
    LET c == GetLogContent(fsys, logEntry.FilePath, SearchMaxLines)
        hits == SelectSeq(c.lines,
                    LAMBDA l : Contains(ToLower(l), ToLower(keyword)))
    IN  [results |-> IF c.err THEN <<>>
                     ELSE [k \in 1..Len(hits)
                             |-> [logEntry EXCEPT !.Content = hits[k]]],
         entry   |-> logEntry]

\* as searchEntry, writing the line into the entry of the scan result
\* instead of a copy
searchEntry_InPlace(fsys, logEntry, keyword) ==
    LET c == GetLogContent(fsys, logEntry.FilePath, SearchMaxLines)
        k == firstMatch(c.lines, keyword)
    IN  IF c.err \/ k = 0
        THEN [results |-> <<>>, entry |-> logEntry]
        ELSE [results |-> << [logEntry EXCEPT !.Content = c.lines[k]] >>,
              entry   |-> [logEntry EXCEPT !.Content = c.lines[k]]]

\* the body of the loop over the entries of a summary: results is what the
\* entry adds to the results (result := *logEntry is a copy), entry is the
\* LogEntry of the scan result after the iteration
searchEntry(fsys, logEntry, keyword) ==
    LET c == GetLogContent(fsys, logEntry.FilePath, SearchMaxLines)
        k == firstMatch(c.lines, keyword)
    IN  [results |-> IF c.err THEN <<>>
                     ELSE IF k = 0 THEN <<>>
                     ELSE << [logEntry EXCEPT !.Content = c.lines[k]] >>,
         entry   |-> logEntry]

\* the loop over the entries of one summary from index j on; st.results is
\* the results so far, st.logs the entries of the summary
RECURSIVE searchLogs(_, _, _, _)
searchLogs(fsys, keyword, j, st) ==
    IF j > Len(st.logs) THEN st
    ELSE LET r == searchEntry(fsys, st.logs[j], keyword)
         IN  searchLogs(fsys, keyword, j + 1,
                 [results |-> st.results \o r.results,
                  logs    |-> [st.logs EXCEPT ![j] = r.entry]])

\* the loop over the summaries from index i on; st.results is the results
\* so far, st.summaries the summaries of the scan
RECURSIVE searchSummaries(_, _, _, _)
searchSummaries(fsys, keyword, i, st) ==
    IF i > Len(st.summaries) THEN st
    ELSE LET r == searchLogs(fsys, keyword, 1,
                      [results |-> st.results, logs |-> st.summaries[i].Logs])
         IN  searchSummaries(fsys, keyword, i + 1,
                 [results   |-> r.results,
                  summaries |-> [st.summaries EXCEPT ![i].Logs = r.logs]])

\* the outcomes of SearchLogs(keyword) on the day today: returned is what
\* the scan returned, scan the same summaries when the search returns
SearchLogs(fsys, keyword, today, ls) ==
    { LET st == searchSummaries(fsys, keyword, 1,
                    [results |-> <<>>, summaries |-> s.summaries])
      IN  [called   |-> TRUE,
           keyword  |-> keyword,
           today    |-> today,
           err      |-> s.err,
           returned |-> s.summaries,
           scan     |-> IF s.err THEN <<>> ELSE st.summaries,
           results  |-> IF s.err THEN <<>> ELSE st.results,
           logged   |-> s.logged] : s \in ScanTodaysLogs(fsys, today, ls) }

-----------------------------------------------------------------------------
(* handleNFSLogs, filterWorkflows *)

\* as filterWorkflows, filtering in the array of the input slice
filterWorkflows_InPlace(workflows, source, status) ==
    LET keep(w) == /\ source = "" \/ w.Source = source
                   /\ status = "" \/ w.Status = status
        f == SelectSeq(workflows, keep)
    IN  [filtered  |-> f,
         workflows |-> [i \in 1..Len(workflows)
                          |-> IF i <= Len(f) THEN f[i] ELSE workflows[i]]]

\* the loop of filterWorkflows from index i on; st.filtered is the slice
\* built so far, st.workflows the input slice, which the loop only reads
RECURSIVE filterLoop(_, _, _, _)
filterLoop(source, status, i, st) ==
    IF i > Len(st.workflows) THEN st
    ELSE filterLoop(source, status, i + 1,
            IF source # "" /\ st.workflows[i].Source # source THEN st
            ELSE IF status # "" /\ st.workflows[i].Status # status THEN st
            ELSE [st EXCEPT !.filtered = Append(@, st.workflows[i])])

filterWorkflows(workflows, source, status) ==
    filterLoop(source, status, 1, [filtered |-> <<>>, workflows |-> workflows])

\* the outcomes of a request with the query parameters source, status and
\* date: failed when the error page is written; summaries is what the scan
\* returned, workflows that slice after filterWorkflows, filtered what is
\* rendered
handleNFSLogs(fsys, source, status, dateStr, today, ls) ==
    { LET f == filterWorkflows(s.summaries, source, status)
      IN  [called    |-> TRUE,
           source    |-> source,
           status    |-> status,
           date      |-> dateStr,
           failed    |-> s.err,
           summaries |-> s.summaries,
           workflows |-> IF s.err THEN <<>> ELSE f.workflows,
           filtered  |-> IF s.err THEN <<>> ELSE f.filtered,
           logged    |-> s.logged] :
      s \in IF dateStr # ""
            THEN ScanLogsForDate(fsys, dateStr, ls)
            ELSE ScanTodaysLogs(fsys, today, ls) }

-----------------------------------------------------------------------------
(* Package config: LoadEnvFile, LoadFromEnv, LoadConfig, applyEnvOverrides, *)
(* GetNFSRoot.  The process environment is a function from variable names  *)
(* to values, "" for a variable that is not set.  A .env file is the       *)
(* sequence of its key = value lines; a YAML file is the function from the *)
(* keys it holds to their values.  Of the settings, the mode, the server   *)
(* host and the three NFS paths are modelled.                              *)

EnvVars == {"ENV", "HOST", "SERVER_HOST", "NFS_ROOT", "NFS_ROOT_TEST",
            "NFS_ROOT_PROD"}

\* os.Setenv(key, value) for each line of the file whose key is not set,
\* from line i on; a file that does not exist is skipped
RECURSIVE LoadEnvFile(_, _, _)
LoadEnvFile(env, file, i) ==
    IF ~file.exists \/ i > Len(file.pairs) THEN env
    ELSE LoadEnvFile(IF env[file.pairs[i][1]] = ""
                     THEN [env EXCEPT ![file.pairs[i][1]] = file.pairs[i][2]]
                     ELSE env,
                     file, i + 1)

GetEnvWithDefault(env, key, defaultValue) ==
    IF env[key] # "" THEN env[key] ELSE defaultValue

LoadFromEnv(env) ==
    [Mode        |-> GetEnvWithDefault(env, "ENV", "test"),
     Host        |-> GetEnvWithDefault(env, "HOST", "0.0.0.0"),
     NFSRoot     |-> GetEnvWithDefault(env, "NFS_ROOT", ""),
     NFSRootTest |-> GetEnvWithDefault(env, "NFS_ROOT_TEST",
                                       "./nfs_backup/monitoring"),
     NFSRootProd |-> GetEnvWithDefault(env, "NFS_ROOT_PROD",
                        "/home/informaticaadmin/nfs_backup/monitoring")]

\* the defaults LoadConfig starts from when it reads a YAML file
defaultConfig(env) ==
    [Mode        |-> GetEnvWithDefault(env, "ENV", "test"),
     Host        |-> "0.0.0.0",
     NFSRoot     |-> "./nfs_backup/monitoring",
     NFSRootTest |-> "./nfs_backup/monitoring",
     NFSRootProd |-> "/home/informaticaadmin/nfs_backup/monitoring"]

\* yaml.Unmarshal into config: the keys of the file replace the fields
loadConfigFile(config, yaml) ==
    [Mode        |-> IF "mode" \in DOMAIN yaml.keys
                     THEN yaml.keys["mode"] ELSE config.Mode,
     Host        |-> IF "host" \in DOMAIN yaml.keys
                     THEN yaml.keys["host"] ELSE config.Host,
     NFSRoot     |-> IF "nfs_root" \in DOMAIN yaml.keys
                     THEN yaml.keys["nfs_root"] ELSE config.NFSRoot,
     NFSRootTest |-> IF "nfs_root_test" \in DOMAIN yaml.keys
                     THEN yaml.keys["nfs_root_test"] ELSE config.NFSRootTest,
     NFSRootProd |-> IF "nfs_root_prod" \in DOMAIN yaml.keys
                     THEN yaml.keys["nfs_root_prod"] ELSE config.NFSRootProd]

applyEnvOverrides(env, config) ==
    [Mode        |-> IF env["ENV"] # "" THEN env["ENV"] ELSE config.Mode,
     Host        |-> IF env["SERVER_HOST"] # ""
                     THEN env["SERVER_HOST"] ELSE config.Host,
     NFSRoot     |-> config.NFSRoot,
     NFSRootTest |-> IF env["NFS_ROOT_TEST"] # ""
                     THEN env["NFS_ROOT_TEST"] ELSE config.NFSRootTest,
     NFSRootProd |-> IF env["NFS_ROOT_PROD"] # ""
                     THEN env["NFS_ROOT_PROD"] ELSE config.NFSRootProd]

\* LoadConfig(configPath): kind is "dotenv" for a path that ends in .env,
\* "yaml" for another path, "" for no path; dotenv is the .env file the call
\* reads (the one at configPath, or ./.env), yaml the YAML file it finds
LoadConfig(kind, env, dotenv, yaml) ==
    LET env2 == LoadEnvFile(env, dotenv, 1)
    IN  IF kind = "dotenv"
        THEN [config |-> LoadFromEnv(env2), env |-> env2]
        ELSE [config |-> applyEnvOverrides(env2,
                            IF yaml.exists
                            THEN loadConfigFile(defaultConfig(env2), yaml)
                            ELSE defaultConfig(env2)),
              env |-> env2]

GetNFSRoot(c) ==
    IF c.NFSRoot # "" THEN c.NFSRoot
    ELSE IF c.Mode = "test" /\ c.NFSRootTest # "" THEN c.NFSRootTest
    ELSE IF c.Mode = "prod" /\ c.NFSRootProd # "" THEN c.NFSRootProd
    ELSE IF c.Mode = "test" THEN "./nfs_backup/monitoring"
    ELSE "/home/informaticaadmin/nfs_backup/monitoring"

\* main: LoadConfig, then the --mode flag
main(kind, flagMode, env, dotenv, yaml) ==
    LET l == LoadConfig(kind, env, dotenv, yaml)
    IN  [called  |-> TRUE,
         kind    |-> kind,
         flag    |-> flagMode,
         environ |-> env,
         dotenv  |-> dotenv,
         yaml    |-> yaml,
         config  |-> l.config,
         final   |-> IF flagMode # ""
                     THEN [l.config EXCEPT !.Mode = flagMode] ELSE l.config,
         nfsRoot |-> GetNFSRoot(IF flagMode # ""
                                THEN [l.config EXCEPT !.Mode = flagMode]
                                ELSE l.config)]

-----------------------------------------------------------------------------
(* The trees the scanner is run on *)

Sources == {"B", "a"}
Dates == {"2025-01-10", "2025-01-11"}
Workflows == {"job10", "job2"}

Root == <<>>
EmptyTree == (Root :> Dir)

LogTypeSet == { logTypes[i] : i \in DOMAIN logTypes }

WorkflowDirs(fsys) == { p \in DOMAIN fsys : Len(p) = 3 }
FilePaths(fsys) == { p \in DOMAIN fsys : Len(p) = 4 }

\* mkdir -p root/source/date/workflow, then cat > root/source/date/workflow/t
\* for each artifact t of present, with lines present[t][1], the file then
\* being readable by the scanner iff present[t][2]
addWorkflow(fsys, source, date, workflow, present) ==
    LET dir == <<source, date, workflow>>
        dirs == {<<source>>, <<source, date>>, dir}
        files == { Join(dir, t) : t \in DOMAIN present }
    IN  [p \in DOMAIN fsys \cup dirs \cup files
            |-> IF p \in files THEN File(present[p[4]][1], present[p[4]][2])
                ELSE IF p \in DOMAIN fsys THEN fsys[p]
                ELSE Dir]

\* one order of the entries for each directory of dirs
RECURSIVE ListingsOf(_, _)
ListingsOf(fsys, dirs) ==
    IF dirs = {} THEN { <<>> }
    ELSE LET d == CHOOSE x \in dirs : TRUE
         IN  { (d :> o) @@ ls : o \in Orderings(EntryNames(fsys, d)),
                                ls \in ListingsOf(fsys, dirs \ {d}) }

\* the listings os.ReadDir can give ScanLogsForDate(date): one order of the
\* entries for the root and for each date directory
Listings(fsys, date) ==
    ListingsOf(fsys, {Root} \cup { p \in DOMAIN fsys : Len(p) = 2 /\ p[2] = date })

-----------------------------------------------------------------------------
(* Spec: ScanLogsForDate on trees built as setup-test-env.sh builds them *)

clean == << <<"o","k">> >>
failing == << <<"o","k">>, <<"x"," ","E","R","R","O","R">> >>

\* the workflow directories of these trees: without artifacts, completed,
\* and failed with an error.log the scanner cannot open
TreeChoices ==
    { <<>>,
      ("info.log" :> <<clean, TRUE>>) @@ ("run.log" :> <<clean, TRUE>>),
      ("info.log" :> <<failing, TRUE>>) @@ ("error.log" :> <<clean, FALSE>>)
          @@ ("run.log" :> <<clean, TRUE>>) }

Init ==
    /\ fs = EmptyTree
    /\ detected = NoCall
    /\ inspected = NoCall
    /\ scanned = NoCall
    /\ prevScan = NoCall
    /\ listing = NoCall
    /\ handled = NoCall
    /\ searched = NoCall
    /\ calls = NoCall
    /\ read = NoCall
    /\ loaded = NoCall
    /\ race = NoCall

\* the tree is set up before the scanner runs on it
AddWorkflow ==
    \E source \in Sources, date \in Dates, workflow \in Workflows,
       present \in TreeChoices :
        /\ ~scanned.called
        /\ <<source, date, workflow>> \notin DOMAIN fs
        /\ Cardinality(WorkflowDirs(fs)) < MaxWorkflows
        /\ fs' = addWorkflow(fs, source, date, workflow, present)
        /\ UNCHANGED <<detected, inspected, scanned, prevScan, listing, handled,
                     searched, calls,
                     read, loaded, race>>

\* what a call returns, without what it logged
Returned(call) ==
    IF call.called
    THEN [called |-> TRUE, date |-> call.date, err |-> call.err,
          summaries |-> call.summaries]
    ELSE NoCall

Scan ==
    \E date \in Dates :
        \E ls \in Listings(fs, date) :
            \E out \in ScanLogsForDate(fs, date, ls) :
                /\ scanned' = out
                /\ prevScan' = IF scanned.called /\ scanned.date = date
                               THEN Returned(scanned)
                               ELSE NoCall
                /\ listing' = ls
                /\ UNCHANGED <<fs, detected, inspected, handled, searched, calls,
                               read, loaded, race>>

Next == AddWorkflow \/ Scan

Spec == Init /\ [][Next]_vars

-----------------------------------------------------------------------------
(* SpecWorkflow: scanWorkflow on one workflow directory *)

TheWorkflow == <<"a", "2025-01-10", "job2">>

\* the contents the artifacts of the workflow directory are drawn from
blankThenText == << <<>>, <<"o","k">> >>
InspectChoices ==
    { <<c, TRUE>> : c \in { <<>>,
                            << <<>> >>,
                            << <<" ","\t">> >>,
                            clean,
                            blankThenText,
                            failing,
                            << <<"f","a","i","l","e","d">> >>,
                            << TooLong >> } }
    \cup { <<failing, FALSE>> }

\* the tree that holds the one workflow directory
WorkflowTree(present) ==
    addWorkflow(EmptyTree, TheWorkflow[1], TheWorkflow[2], TheWorkflow[3], present)

InitWorkflow ==
    /\ \E kinds \in SUBSET LogTypeSet :
         \E present \in [kinds -> InspectChoices] :
            fs = WorkflowTree(present)
    /\ detected = NoCall
    /\ inspected = NoCall
    /\ scanned = NoCall
    /\ prevScan = NoCall
    /\ listing = NoCall
    /\ handled = NoCall
    /\ searched = NoCall
    /\ calls = NoCall
    /\ read = NoCall
    /\ loaded = NoCall
    /\ race = NoCall

Inspect ==
    /\ inspected' = [called |-> TRUE,
                     out |-> scanWorkflow(fs, TheWorkflow[1], TheWorkflow[2],
                                          TheWorkflow[3])]
    /\ UNCHANGED <<fs, detected, scanned, prevScan, listing, handled, searched,
                 calls,
                 read, loaded, race>>

NextWorkflow == Inspect

SpecWorkflow == InitWorkflow /\ [][NextWorkflow]_vars

-----------------------------------------------------------------------------
(* SpecExtras: scanWorkflow on a workflow directory that also holds files *)
(* with other names                                                      *)

OtherNames == {"debug.log", "info.log.bak"}

ExtraChoices == { <<clean, TRUE>>, <<failing, TRUE>>, <<failing, FALSE>> }

InitExtras ==
    /\ \E kinds \in SUBSET LogTypeSet, others \in SUBSET OtherNames :
         \E present \in [kinds -> ExtraChoices],
            extra \in [others -> { <<failing, TRUE>>, <<failing, FALSE>> }] :
            fs = WorkflowTree(present @@ extra)
    /\ detected = NoCall
    /\ inspected = NoCall
    /\ scanned = NoCall
    /\ prevScan = NoCall
    /\ listing = NoCall
    /\ handled = NoCall
    /\ searched = NoCall
    /\ calls = NoCall
    /\ read = NoCall
    /\ loaded = NoCall
    /\ race = NoCall

SpecExtras == InitExtras /\ [][NextWorkflow]_vars

-----------------------------------------------------------------------------
(* SpecApi: one request to handleNFSLogs, or one SearchLogs call, on a *)
(* tree of up to three workflow directories                            *)

\* text on the first line and an over-long line after it
textThenTooLong == << <<"o","k">>, TooLong >>

\* the workflow directories of these trees: without artifacts, completed,
\* failed with an error.log the scanner cannot open, failed with an
\* error.log whose second line does not fit the scanner buffer, and in
\* progress next to a file of another name
ApiChoices ==
    TreeChoices
    \cup { ("info.log" :> <<failing, TRUE>>)
             @@ ("error.log" :> <<textThenTooLong, TRUE>>),
           ("info.log" :> <<clean, TRUE>>)
             @@ ("debug.log" :> << << <<"z","z">> >>, TRUE >>) }

ApiSlots == << <<"B", "2025-01-10", "job2">>,
               <<"a", "2025-01-10", "job10">>,
               <<"a", "2025-01-10", "job2">> >>

\* the tree with slot k set up as content[k], where that is not "absent"
RECURSIVE apiTree(_, _)
apiTree(content, k) ==
    IF k = 0 THEN EmptyTree
    ELSE IF content[k] = <<"absent">> THEN apiTree(content, k - 1)
    ELSE addWorkflow(apiTree(content, k - 1), ApiSlots[k][1], ApiSlots[k][2],
                     ApiSlots[k][3], content[k][2])

\* the date parameters of a request: none, two dates, and a string that is
\* not a date
DateParams == {""} \cup Dates \cup {"10-01-2025"}

SourceParams == {""} \cup Sources

StatusParams == {"", "Failed", "Completed", "No Logs"}

Keywords == { <<>>, <<"O","K">>, <<"o">>, <<"e","r","r","o","r">>, <<"z">>,
              <<"n","e","e","d","l","e">> }

InitApi ==
    /\ \E content \in [1..3 -> { <<"absent">> }
                                 \cup { <<"present", c>> : c \in ApiChoices }] :
         fs = apiTree(content, 3)
    /\ detected = NoCall
    /\ inspected = NoCall
    /\ scanned = NoCall
    /\ prevScan = NoCall
    /\ listing = NoCall
    /\ handled = NoCall
    /\ searched = NoCall
    /\ calls = NoCall
    /\ read = NoCall
    /\ loaded = NoCall
    /\ race = NoCall

\* one request GET /api/nfs/logs?source=..&status=..&date=..
HandleNFSLogs ==
    /\ ~handled.called
    /\ ~searched.called
    /\ \E source \in SourceParams, status \in StatusParams,
          dateStr \in DateParams, today \in Dates :
        \E ls \in Listings(fs, IF dateStr # "" THEN dateStr ELSE today) :
            \E out \in handleNFSLogs(fs, source, status, dateStr, today, ls) :
                /\ handled' = out
                /\ UNCHANGED <<fs, detected, inspected, scanned, prevScan,
                             listing, searched, calls,
                             read, loaded, race>>

\* one SearchLogs call
Search ==
    /\ ~handled.called
    /\ ~searched.called
    /\ \E keyword \in Keywords, today \in Dates :
        \E ls \in Listings(fs, today) :
            \E out \in SearchLogs(fs, keyword, today, ls) :
                /\ searched' = out
                /\ UNCHANGED <<fs, detected, inspected, scanned, prevScan,
                             listing, handled, calls,
                             read, loaded, race>>

NextApi == HandleNFSLogs \/ Search

SpecApi == InitApi /\ [][NextApi]_vars

-----------------------------------------------------------------------------
(* SpecConcurrent: two goroutines call ScanLogsForDate on one Scanner.     *)
(* A call takes one step to list the root, one step for each source, and   *)
(* one step to sort and return; the steps of the two calls interleave. The *)
(* Scanner holds nfsRoot only, which no call writes; date, sources and     *)
(* summaries are locals of the call.                                       *)

Goroutines == {1, 2}

ConcurrentSlots == << <<"B", "2025-01-10", "job2">>,
                      <<"a", "2025-01-10", "job10">>,
                      <<"a", "2025-01-11", "job2">> >>

RECURSIVE concurrentTree(_, _)
concurrentTree(content, k) ==
    IF k = 0 THEN EmptyTree
    ELSE IF content[k] = <<"absent">> THEN concurrentTree(content, k - 1)
    ELSE addWorkflow(concurrentTree(content, k - 1), ConcurrentSlots[k][1],
                     ConcurrentSlots[k][2], ConcurrentSlots[k][3], content[k][2])

\* a goroutine that has not called
Idle == [pc |-> "idle", date |-> "", ls |-> <<>>, sources |-> <<>>, i |-> 0,
         summaries |-> <<>>, logged |-> <<>>, err |-> FALSE,
         overlapped |-> FALSE]

InitConcurrent ==
    /\ \E content \in [1..3 -> { <<"absent">> }
                                 \cup { <<"present", c>> : c \in TreeChoices }] :
         fs = concurrentTree(content, 3)
    /\ detected = NoCall
    /\ inspected = NoCall
    /\ scanned = NoCall
    /\ prevScan = NoCall
    /\ listing = NoCall
    /\ handled = NoCall
    /\ searched = NoCall
    /\ calls = [c \in Goroutines |-> Idle]
    /\ read = NoCall
    /\ loaded = NoCall
    /\ race = NoCall

\* another call is between its first and its last step
Overlaps(c) == \E o \in Goroutines \ {c} : calls[o].pc = "sources"

\* as appendRuns, with summaries a field of the Scanner that all calls
\* append to
appendRuns_Shared(cs, c, r) ==
    [o \in DOMAIN cs |->
        IF o = c
        THEN [cs[o] EXCEPT !.summaries = @ \o r.summaries,
                           !.logged = @ \o r.logged,
                           !.i = @ + 1]
        ELSE [cs[o] EXCEPT !.summaries = @ \o r.summaries]]

\* summaries = append(summaries, sourceSummaries...) on the local slice of
\* call c
appendRuns(cs, c, r) ==
    [cs EXCEPT ![c].summaries = @ \o r.summaries,
               ![c].logged = @ \o r.logged,
               ![c].i = @ + 1]

\* the call enters ScanLogsForDate(date) and lists the root
BeginScan(c) ==
    /\ calls[c].pc = "idle"
    /\ \E date \in Dates :
         \E ls \in Listings(fs, date) :
            LET g == getSourceDirectories(fs, ls)
            IN  calls' = [calls EXCEPT ![c] =
                    [Idle EXCEPT !.pc = IF g.err THEN "done" ELSE "sources",
                                 !.date = date,
                                 !.ls = ls,
                                 !.sources = g.sources,
                                 !.i = 1,
                                 !.err = g.err,
                                 !.overlapped = Overlaps(c)]]
    /\ UNCHANGED <<fs, detected, inspected, scanned, prevScan, listing,
                 handled, searched,
                 read, loaded, race>>

\* one iteration of the loop over the sources
ScanSource(c) ==
    /\ calls[c].pc = "sources"
    /\ calls[c].i <= Len(calls[c].sources)
    /\ LET r == scanSourceForDate(fs, calls[c].sources[calls[c].i],
                                  calls[c].date, calls[c].ls)
           next == IF r.err
                   THEN [calls EXCEPT
                           ![c].logged = Append(@, <<calls[c].sources[calls[c].i],
                                                     calls[c].date>>),
                           ![c].i = @ + 1]
                   ELSE appendRuns(calls, c, r)
       IN  calls' = [next EXCEPT ![c].overlapped = @ \/ Overlaps(c)]
    /\ UNCHANGED <<fs, detected, inspected, scanned, prevScan, listing,
                 handled, searched,
                 read, loaded, race>>

\* the sort and the return
EndScan(c) ==
    /\ calls[c].pc = "sources"
    /\ calls[c].i > Len(calls[c].sources)
    /\ \E sorted \in sortSlice(calls[c].summaries) :
         calls' = [calls EXCEPT ![c].pc = "done",
                                ![c].summaries = sorted,
                                ![c].overlapped = @ \/ Overlaps(c)]
    /\ UNCHANGED <<fs, detected, inspected, scanned, prevScan, listing,
                 handled, searched,
                 read, loaded, race>>

NextConcurrent ==
    \E c \in Goroutines : BeginScan(c) \/ ScanSource(c) \/ EndScan(c)

SpecConcurrent == InitConcurrent /\ [][NextConcurrent]_vars

-----------------------------------------------------------------------------
(* SpecContent: GetLogContent and GetLogTail on one file *)

ContentLines == { <<>>, <<"o","k">>, <<"x"," ","E","R","R","O","R">>, TooLong }

\* all files of at most n of these lines
ContentFiles(n) == UNION { [1..k -> ContentLines] : k \in 0..n }

TheFile == Join(TheWorkflow, "info.log")

InitContent ==
    /\ \E lines \in ContentFiles(MaxLines), readable \in BOOLEAN :
         fs = WorkflowTree(("info.log" :> <<lines, readable>>))
    /\ detected = NoCall
    /\ inspected = NoCall
    /\ scanned = NoCall
    /\ prevScan = NoCall
    /\ listing = NoCall
    /\ handled = NoCall
    /\ searched = NoCall
    /\ calls = NoCall
    /\ read = NoCall
    /\ loaded = NoCall
    /\ race = NoCall

\* one GetLogContent(TheFile, maxLines) call
ReadContent ==
    \E maxLines \in 0..(MaxLines + 1) :
        /\ read' = [called |-> TRUE, op |-> "content", n |-> maxLines,
                    out |-> GetLogContent(fs, TheFile, maxLines)]
        /\ UNCHANGED <<fs, detected, inspected, scanned, prevScan, listing,
                     handled, searched, calls, loaded, race>>

\* one GetLogTail(TheFile, n) call
ReadTail ==
    \E n \in (-2)..(MaxLines + 1) :
        /\ read' = [called |-> TRUE, op |-> "tail", n |-> n,
                    out |-> GetLogTail(fs, TheFile, n)]
        /\ UNCHANGED <<fs, detected, inspected, scanned, prevScan, listing,
                     handled, searched, calls, loaded, race>>

NextContent == ReadContent \/ ReadTail

SpecContent == InitContent /\ [][NextContent]_vars

-----------------------------------------------------------------------------
(* SpecConfig: the server starts with some environment, .env file, YAML *)
(* file and command line                                                *)

\* the environments: each variable not set, or set to a value of its own
Environs ==
    { [v \in EnvVars |-> IF v = "ENV" THEN m
                         ELSE IF v \in set THEN "env:" \o v ELSE ""] :
      m \in {"", "test", "prod"}, set \in SUBSET (EnvVars \ {"ENV"}) }

DotEnvFiles ==
    { [exists |-> FALSE, pairs |-> <<>>],
      [exists |-> TRUE,
       pairs |-> << <<"ENV", "prod">>,
                    <<"NFS_ROOT_TEST", "dotenv:NFS_ROOT_TEST">>,
                    <<"NFS_ROOT_PROD", "dotenv:NFS_ROOT_PROD">> >>],
      [exists |-> TRUE,
       pairs |-> << <<"ENV", "test">>,
                    <<"HOST", "dotenv:HOST">>,
                    <<"NFS_ROOT", "dotenv:NFS_ROOT">>,
                    <<"HOST", "dotenv:HOST again">> >>] }

YamlFiles ==
    { [exists |-> FALSE, keys |-> <<>>],
      [exists |-> TRUE,
       keys |-> ("mode" :> "prod")
                @@ ("nfs_root_test" :> "yaml:nfs_root_test")
                @@ ("nfs_root_prod" :> "yaml:nfs_root_prod")],
      [exists |-> TRUE,
       keys |-> ("mode" :> "test")
                @@ ("host" :> "yaml:host")
                @@ ("nfs_root" :> "yaml:nfs_root")] }

InitConfig ==
    /\ fs = EmptyTree
    /\ detected = NoCall
    /\ inspected = NoCall
    /\ scanned = NoCall
    /\ prevScan = NoCall
    /\ listing = NoCall
    /\ handled = NoCall
    /\ searched = NoCall
    /\ calls = NoCall
    /\ read = NoCall
    /\ loaded = NoCall
    /\ race = NoCall

\* monitoring-server [--config=path] [--mode=test|prod]
Main ==
    /\ ~loaded.called
    /\ \E kind \in {"", "dotenv", "yaml"}, flagMode \in {"", "test", "prod"},
          env \in Environs, dotenv \in DotEnvFiles, yaml \in YamlFiles :
            loaded' = main(kind, flagMode, env, dotenv, yaml)
    /\ UNCHANGED <<fs, detected, inspected, scanned, prevScan, listing,
                 handled, searched, calls, read, race>>

NextConfig == Main

SpecConfig == InitConfig /\ [][NextConfig]_vars

-----------------------------------------------------------------------------
(* SpecLong: SearchLogs on artifacts longer than the lines it reads *)

\* two lines that hold "needle" in different letter case
twoNeedles == << <<"N","e","e","d","l","e"," ","1">>,
                 <<"n","e","e","d","l","e"," ","2">> >>

\* a file of SearchMaxLines + 1 lines that holds "Needle" on line at only
needleAt(at) ==
    [i \in 1..(SearchMaxLines + 1)
        |-> IF i = at THEN <<"N","e","e","d","l","e">> ELSE <<"o","k">>]

\* what an artifact of these trees holds; <<>> for an artifact that is absent
LongContents ==
    { <<>>, twoNeedles, needleAt(SearchMaxLines), needleAt(SearchMaxLines + 1) }

ShortContents == { <<>>, twoNeedles }

\* the artifacts of present that are there
Present(present) ==
    [t \in { u \in DOMAIN present : present[u] # <<>> } |-> <<present[t], TRUE>>]

InitLong ==
    /\ \E long \in LongContents, s1 \in ShortContents, s2 \in ShortContents,
          s3 \in ShortContents, s4 \in ShortContents :
         fs = addWorkflow(
                addWorkflow(
                  addWorkflow(EmptyTree, "B", "2025-01-10", "job2",
                              Present(("error.log" :> long) @@ ("run.log" :> s1))),
                  "a", "2025-01-10", "job10",
                  Present(("info.log" :> s2) @@ ("run.log" :> s3))),
                "a", "2025-01-10", "job2", Present("run.log" :> s4))
    /\ detected = NoCall
    /\ inspected = NoCall
    /\ scanned = NoCall
    /\ prevScan = NoCall
    /\ listing = NoCall
    /\ handled = NoCall
    /\ searched = NoCall
    /\ calls = NoCall
    /\ read = NoCall
    /\ loaded = NoCall
    /\ race = NoCall

NextLong == Search

SpecLong == InitLong /\ [][NextLong]_vars

-----------------------------------------------------------------------------
(* SpecRace: one ScanLogsForDate call, system call by system call, while   *)
(* another process removes artifact files and date directories.  race is   *)
(* the call: pc the system call it makes next, sources/si the loop over    *)
(* sources, workflows/wi the loop over workflows, ti the loop over         *)
(* logTypes, summary the summary scanWorkflow is filling, sourceSummaries  *)
(* the local of scanSourceForDate, summaries the local of ScanLogsForDate, *)
(* logged the paths given to logger.LogError, err the error returned.      *)
(* race.hit is bookkeeping: the paths that were removed after the call saw *)
(* them exist and before it opened or listed them.                         *)

\* the trees and what may be removed from them
RaceDate == "2025-01-10"

RaceChoices ==
    { ("info.log" :> <<clean, TRUE>>) @@ ("run.log" :> <<clean, TRUE>>),
      ("info.log" :> <<failing, TRUE>>) @@ ("run.log" :> <<clean, TRUE>>) }

raceDatePath(r) == <<r.sources[r.si], r.date>>

raceLogPath(r) ==
    <<r.sources[r.si], r.date, r.workflows[r.wi], logTypes[r.ti]>>

\* summary := &WorkflowSummary{...} at the start of scanWorkflow
newSummary(source, date, workflow) ==
    [Source    |-> source,
     Date      |-> date,
     Workflow  |-> workflow,
     Logs      |-> <<>>,
     HasErrors |-> FALSE,
     Status    |-> "Unknown"]

\* the loop over sources goes on to the next source, or ends
nextSource(r) ==
    IF r.si + 1 > Len(r.sources)
    THEN [r EXCEPT !.pc = "sort"]
    ELSE [r EXCEPT !.pc = "statDate", !.si = @ + 1, !.workflows = <<>>,
                   !.wi = 1, !.ti = 1, !.sourceSummaries = <<>>]

\* scanSourceForDate returns its summaries and no error, which
\* ScanLogsForDate appends to its own
returnSource(r) ==
    nextSource([r EXCEPT !.summaries = @ \o r.sourceSummaries])

\* as sourceFailed, ScanLogsForDate returning the error of the source
sourceFailed_Abort(r) ==
    [r EXCEPT !.pc = "done", !.err = TRUE, !.summaries = <<>>,
              !.logged = Append(@, raceDatePath(r))]

\* scanSourceForDate returns an error: ScanLogsForDate logs it and continues
\* with the next source
sourceFailed(r) ==
    nextSource([r EXCEPT !.logged = Append(@, raceDatePath(r))])

\* scanWorkflow sets the status and returns; scanSourceForDate appends the
\* summary and goes on to the next workflow, or returns
nextWorkflow(r) ==
    LET done == [r.summary EXCEPT !.Status = determineWorkflowStatus(r.summary)]
        r1   == [r EXCEPT !.sourceSummaries = Append(@, done)]
    IN  IF r.wi + 1 > Len(r.workflows)
        THEN returnSource(r1)
        ELSE [r1 EXCEPT !.pc = "statArtifact", !.wi = @ + 1, !.ti = 1,
                        !.summary = newSummary(r.sources[r.si], r.date,
                                               r.workflows[r.wi + 1])]

\* the loop over logTypes goes on to the next artifact, or ends
nextArtifact(r) ==
    IF r.ti + 1 > Len(logTypes)
    THEN nextWorkflow(r)
    ELSE [r EXCEPT !.pc = "statArtifact", !.ti = @ + 1]

\* scanLogFile returned an error: scanWorkflow logs it and continues
artifactFailed(r) ==
    nextArtifact([r EXCEPT !.logged = Append(@, raceLogPath(r))])

\* scanLogFile returned an entry: scanWorkflow appends it
artifactScanned(r, entry) ==
    nextArtifact([r EXCEPT !.summary.Logs = Append(@, entry),
                           !.summary.HasErrors = @ \/ entry.HasErrors])

InitRace ==
    /\ \E present \in RaceChoices :
         fs = addWorkflow(
                addWorkflow(
                  addWorkflow(EmptyTree, "B", RaceDate, "job2",
                              ("error.log" :> <<clean, TRUE>>)),
                  "a", RaceDate, "job10", present),
                "a", RaceDate, "job2", ("run.log" :> <<clean, TRUE>>))
    /\ race = [called          |-> TRUE,
               pc              |-> "getSources",
               date            |-> RaceDate,
               sources         |-> <<>>,
               si              |-> 1,
               workflows       |-> <<>>,
               wi              |-> 1,
               ti              |-> 1,
               summary         |-> newSummary("", RaceDate, ""),
               sourceSummaries |-> <<>>,
               summaries       |-> <<>>,
               logged          |-> <<>>,
               err             |-> FALSE,
               hit             |-> {}]
    /\ detected = NoCall
    /\ inspected = NoCall
    /\ scanned = NoCall
    /\ prevScan = NoCall
    /\ listing = NoCall
    /\ handled = NoCall
    /\ searched = NoCall
    /\ calls = NoCall
    /\ read = NoCall
    /\ loaded = NoCall

RaceRest == <<fs, detected, inspected, scanned, prevScan, listing, handled,
              searched, calls, read, loaded>>

\* getSourceDirectories: os.ReadDir of the root
RaceGetSources ==
    /\ race.called
    /\ race.pc = "getSources"
    /\ \E o \in Orderings(EntryNames(fs, Root)) :
         LET g == getSourceDirectories(fs, (Root :> o))
         IN  race' = IF g.err
                     THEN [race EXCEPT !.pc = "done", !.err = TRUE]
                     ELSE IF g.sources = <<>>
                     THEN [race EXCEPT !.pc = "sort"]
                     ELSE [race EXCEPT !.pc = "statDate", !.sources = g.sources]
    /\ UNCHANGED RaceRest

\* scanSourceForDate: os.Stat of the date directory
RaceStatDate ==
    /\ race.called
    /\ race.pc = "statDate"
    /\ race' = IF IsNotExist(fs, raceDatePath(race))
               THEN returnSource(race)
               ELSE [race EXCEPT !.pc = "readDate"]
    /\ UNCHANGED RaceRest

\* getWorkflowDirectories: os.ReadDir of the date directory
RaceReadDate ==
    /\ race.called
    /\ race.pc = "readDate"
    /\ \E o \in Orderings(EntryNames(fs, raceDatePath(race))) :
         LET w == getWorkflowDirectories(fs, raceDatePath(race),
                                         (raceDatePath(race) :> o))
         IN  race' = IF w.err THEN sourceFailed(race)
                     ELSE IF w.workflows = <<>> THEN returnSource(race)
                     ELSE [race EXCEPT
                             !.pc = "statArtifact",
                             !.workflows = w.workflows,
                             !.summary = newSummary(race.sources[race.si],
                                                    race.date, w.workflows[1])]
    /\ UNCHANGED RaceRest

\* scanWorkflow: os.Stat of the artifact
RaceStatArtifact ==
    /\ race.called
    /\ race.pc = "statArtifact"
    /\ race' = IF IsNotExist(fs, raceLogPath(race))
               THEN nextArtifact(race)
               ELSE [race EXCEPT !.pc = "scanLogFile"]
    /\ UNCHANGED RaceRest

\* scanLogFile: os.Stat of the artifact
RaceScanLogFile ==
    /\ race.called
    /\ race.pc = "scanLogFile"
    /\ race' = IF ~StatOk(fs, raceLogPath(race))
               THEN artifactFailed(race)
               ELSE [race EXCEPT !.pc = "detectErrors"]
    /\ UNCHANGED RaceRest

\* detectErrors: os.Open of the artifact, and the lines read from it.  The
\* os.Stat of scanLogFile succeeded in the step before this one; on the tree
\* as it is now, scanLogFile fails exactly when detectErrors fails
RaceDetectErrors ==
    /\ race.called
    /\ race.pc = "detectErrors"
    /\ LET s == race.summary
           r == scanLogFile(fs, s.Source, s.Date, s.Workflow,
                            logTypes[race.ti], raceLogPath(race))
       IN  race' = IF r.err THEN artifactFailed(race)
                   ELSE artifactScanned(race, r.entry)
    /\ UNCHANGED RaceRest

\* sort.Slice and return
RaceSort ==
    /\ race.called
    /\ race.pc = "sort"
    /\ \E sorted \in sortSlice(race.summaries) :
         race' = [race EXCEPT !.pc = "done", !.summaries = sorted]
    /\ UNCHANGED RaceRest

\* the paths at and below p
Below(fsys, p) ==
    { q \in DOMAIN fsys : Len(q) >= Len(p) /\ SubSeq(q, 1, Len(p)) = p }

\* the paths among gone that the call has seen exist and has not opened or
\* listed yet
Checked(r, gone) ==
    (IF r.pc = "readDate" THEN {raceDatePath(r)} \cap gone ELSE {})
    \cup (IF r.pc \in {"scanLogFile", "detectErrors"}
          THEN {raceLogPath(r)} \cap gone ELSE {})

\* another process removes an artifact file, or a date directory with all
\* it holds, while the call runs
RaceRemove ==
    /\ race.called
    /\ race.pc # "done"
    /\ \E p \in { q \in DOMAIN fs : Len(q) \in {2, 4} } :
         /\ fs' = [q \in DOMAIN fs \ Below(fs, p) |-> fs[q]]
         /\ race' = [race EXCEPT !.hit = @ \cup Checked(race, Below(fs, p))]
    /\ UNCHANGED <<detected, inspected, scanned, prevScan, listing, handled,
                   searched, calls, read, loaded>>

RaceStep ==
    \/ RaceGetSources
    \/ RaceStatDate
    \/ RaceReadDate
    \/ RaceStatArtifact
    \/ RaceScanLogFile
    \/ RaceDetectErrors
    \/ RaceSort

NextRace == RaceStep \/ RaceRemove

\* the call is a sequential function: it makes its next system call
SpecRace == InitRace /\ [][NextRace]_vars /\ WF_vars(RaceStep)

-----------------------------------------------------------------------------
(* SpecClassify: detectErrors on one file *)

InitClassify ==
    /\ \E t \in LogTypeSet, lines \in Files(MaxLines), readable \in BOOLEAN :
         fs = WorkflowTree((t :> <<lines, readable>>))
    /\ detected = NoCall
    /\ inspected = NoCall
    /\ scanned = NoCall
    /\ prevScan = NoCall
    /\ listing = NoCall
    /\ handled = NoCall
    /\ searched = NoCall
    /\ calls = NoCall
    /\ read = NoCall
    /\ loaded = NoCall
    /\ race = NoCall

Classify ==
    \E path \in FilePaths(fs) :
        /\ detected' = [called  |-> TRUE,
                        path    |-> path,
                        logType |-> path[4],
                        out     |-> detectErrors(fs, path, path[4])]
        /\ UNCHANGED <<fs, inspected, scanned, prevScan, listing, handled,
                     searched, calls,
                     read, loaded, race>>

NextClassify == Classify

SpecClassify == InitClassify /\ [][NextClassify]_vars

-----------------------------------------------------------------------------
(* SpecFaults: ScanLogsForDate on trees that hold plain files where         *)
(* directories are expected, directories that cannot be listed, and sources *)
(* without a directory for the date                                         *)

FaultDate == "2025-01-10"

\* a directory that os.ReadDir can list iff readable
DirNode(readable) == [kind |-> "dir", lines |-> <<>>, readable |-> readable]

NoFiles == [p \in {} |-> Dir]

\* the two kinds of workflow directory of these trees
FaultProfiles ==
    { ("info.log" :> <<clean, TRUE>>) @@ ("run.log" :> <<clean, TRUE>>),
      ("info.log" :> <<failing, TRUE>>) @@ ("error.log" :> <<clean, FALSE>>) }

\* what a date directory holds under a workflow name: nothing, a plain
\* file, or a workflow directory
EntryShapes ==
    { [kind |-> "absent", present |-> <<>>],
      [kind |-> "file", present |-> <<>>] }
    \cup { [kind |-> "dir", present |-> p] : p \in FaultProfiles }

NoEntries == [w \in Workflows |-> [kind |-> "absent", present |-> <<>>]]

\* what the root holds under a source name: nothing, a plain file, a
\* directory without the date, a directory with a plain file named as the
\* date, or a directory with a date directory
SourceShapes ==
    { [shape |-> x, readable |-> TRUE, entries |-> NoEntries] :
        x \in {"absent", "file", "nodate", "datefile"} }
    \cup { [shape |-> "dated", readable |-> r, entries |-> e] :
            r \in BOOLEAN, e \in [Workflows -> EntryShapes] }

\* the part of the tree below the root that belongs to source
sourceTree(source, sh) ==
    LET datePath == <<source, FaultDate>>
        entry(w) ==
            IF sh.entries[w].kind = "absent" THEN NoFiles
            ELSE IF sh.entries[w].kind = "file"
            THEN (Join(datePath, w) :> File(failing, TRUE))
            ELSE [p \in {Join(datePath, w)}
                        \cup { <<source, FaultDate, w, t>> :
                                 t \in DOMAIN sh.entries[w].present }
                    |-> IF Len(p) = 3 THEN Dir
                        ELSE File(sh.entries[w].present[p[4]][1],
                                  sh.entries[w].present[p[4]][2])]
    IN  IF sh.shape = "absent" THEN NoFiles
        ELSE IF sh.shape = "file" THEN (<<source>> :> File(failing, TRUE))
        ELSE IF sh.shape = "nodate" THEN (<<source>> :> Dir)
        ELSE IF sh.shape = "datefile"
        THEN (<<source>> :> Dir) @@ (datePath :> File(failing, TRUE))
        ELSE (<<source>> :> Dir) @@ (datePath :> DirNode(sh.readable))
             @@ entry("job10") @@ entry("job2")

\* the root is missing, cannot be listed, or can
faultTree(root, shapes) ==
    IF root = "missing" THEN NoFiles
    ELSE (Root :> DirNode(root = "listable"))
         @@ sourceTree("B", shapes["B"]) @@ sourceTree("a", shapes["a"])

InitFaults ==
    /\ \E root \in {"missing", "unlistable", "listable"},
          shapes \in [Sources -> SourceShapes] :
            fs = faultTree(root, shapes)
    /\ detected = NoCall
    /\ inspected = NoCall
    /\ scanned = NoCall
    /\ prevScan = NoCall
    /\ listing = NoCall
    /\ handled = NoCall
    /\ searched = NoCall
    /\ calls = NoCall
    /\ read = NoCall
    /\ loaded = NoCall
    /\ race = NoCall

\* one ScanLogsForDate call on the tree
ScanOnce == ~scanned.called /\ Scan

NextFaults == ScanOnce

SpecFaults == InitFaults /\ [][NextFaults]_vars

-----------------------------------------------------------------------------
(* Properties of scanWorkflow, checked under SpecWorkflow *)

\* the summary the last scanWorkflow call returned
Run == inspected.out.summary

\* the artifact file of kind t in the inspected workflow directory
Artifact(t) == Join(TheWorkflow, t)

\* a file has non-whitespace content on some line (what an over-long line
\* holds is not known)
HasText(lines) ==
    \E i \in 1..Len(lines) :
        /\ lines[i] # TooLong
        /\ \E j \in 1..Len(lines[i]) : lines[i][j] \notin WhiteSpace

\* the run holds an entry of kind t
Retained(t) == \E i \in 1..Len(Run.Logs) : Run.Logs[i].LogType = t

SomeEntrySignals == \E i \in 1..Len(Run.Logs) : Run.Logs[i].HasErrors

\* C1: a run whose HasErrors flag is true has status Failed, whatever its
\* artifacts; a run with a run.log artifact and an error is Failed, not Completed
C1_ErrorsDominate ==
    inspected.called => (Run.HasErrors => Run.Status = "Failed")

C1_Witness ==
    /\ inspected.called
    /\ Run.HasErrors
    /\ Retained("run.log")
    /\ Run.Status = "Failed"

\* C2: a workflow directory whose error.log can be read and holds
\* non-whitespace content, on whatever line, gets status Failed
C2_NonEmptyErrorLogFails ==
    ( /\ inspected.called
      /\ Artifact("error.log") \in DOMAIN fs
      /\ Retained("error.log")
      /\ HasText(fs[Artifact("error.log")].lines) )
    => Run.Status = "Failed"

\* C4: HasErrors of a run is the OR of the HasErrors flags of its Logs; an
\* artifact left out after a read error is not in Logs and adds nothing
C4_HasErrorsIsOr ==
    inspected.called => (Run.HasErrors <=> SomeEntrySignals)

C4_Witness ==
    /\ inspected.called
    /\ ~Run.HasErrors
    /\ Len(Run.Logs) = 2
    /\ inspected.out.logged = << Artifact("info.log") >>
    /\ fs[Artifact("info.log")].lines = failing

\* C5: without an error signal the status is No Logs iff Logs is empty,
\* Completed iff Logs holds run.log, In Progress iff Logs is non-empty without
\* run.log; Unknown is never returned
C5_DecisionTable ==
    inspected.called =>
        /\ Run.Status # "Unknown"
        /\ ~SomeEntrySignals =>
              /\ Run.Status \in {"No Logs", "Completed", "In Progress"}
              /\ Run.Status = "No Logs" <=> Len(Run.Logs) = 0
              /\ Run.Status = "Completed" <=> Retained("run.log")
              /\ Run.Status = "In Progress"
                    <=> (Len(Run.Logs) > 0 /\ ~Retained("run.log"))

C5_Witness ==
    /\ inspected.called
    /\ ~SomeEntrySignals
    /\ Retained("info.log")
    /\ Retained("run.log")
    /\ Run.Status = "Completed"

\* a line of whitespace only
BlankLine(line) ==
    line # TooLong /\ \A j \in 1..Len(line) : line[j] \in WhiteSpace

\* an error.log without lines, or of one blank line
BlankErrorLog ==
    /\ Artifact("error.log") \in DOMAIN fs
    /\ fs[Artifact("error.log")].readable
    /\ \/ fs[Artifact("error.log")].lines = <<>>
       \/ /\ Len(fs[Artifact("error.log")].lines) = 1
          /\ BlankLine(fs[Artifact("error.log")].lines[1])

\* C6: an empty error.log, or one of a single blank line, is an entry of Logs
\* with HasErrors false; as the only artifact it makes the status In Progress
C6_BlankErrorLog ==
    (inspected.called /\ BlankErrorLog) =>
        /\ \E i \in 1..Len(Run.Logs) :
              Run.Logs[i].LogType = "error.log" /\ ~Run.Logs[i].HasErrors
        /\ FilePaths(fs) = { Artifact("error.log") } => Run.Status = "In Progress"

C6_Witness ==
    /\ inspected.called
    /\ FilePaths(fs) = { Artifact("error.log") }
    /\ fs[Artifact("error.log")].lines = << <<" ", "\t">> >>
    /\ Len(Run.Logs) = 1
    /\ Run.Status = "In Progress"

-----------------------------------------------------------------------------
(* Properties of detectErrors, checked under SpecClassify *)

\* the lines of the file the last detectErrors call was made on
Scanned == fs[detected.path].lines

\* line i holds one of the eight patterns as a substring, case-sensitively
Signals(line) == \E k \in 1..8 : Contains(line, errorPatterns[k])

\* C3: for an error.log that can be read, detectErrors returns true whenever
\* the file holds non-whitespace content on any line
C3_ErrorLogAnyContent ==
    ( /\ detected.called
      /\ detected.logType = "error.log"
      /\ ~detected.out.err
      /\ HasText(Scanned) )
    => detected.out.hasErrors

\* C7: for the other kinds detectErrors returns true iff some line holds a
\* pattern; it stops at the first such line, and returns false without error
\* only after the last line
C7_PatternScan ==
    (detected.called /\ detected.logType # "error.log" /\ ~detected.out.err) =>
        /\ detected.out.hasErrors <=> \E i \in 1..Len(Scanned) : Signals(Scanned[i])
        /\ detected.out.hasErrors =>
              /\ Signals(Scanned[detected.out.nread])
              /\ \A i \in 1..(detected.out.nread - 1) : ~Signals(Scanned[i])
        /\ ~detected.out.hasErrors => detected.out.nread = Len(Scanned)

C7_Witness ==
    /\ detected.called
    /\ detected.logType = "info.log"
    /\ Scanned = << <<"f","a","i","l","e","d">>, <<"F","a","i","l","e","d">> >>
    /\ detected.out = [hasErrors |-> TRUE, err |-> FALSE, nread |-> 2]

-----------------------------------------------------------------------------
(* Properties of ScanLogsForDate, checked under Spec *)

\* the runs the last ScanLogsForDate call returned
Runs == scanned.summaries

\* a <= b on strings, as Go compares them
StrLeq(a, b) == a = b \/ StrLess(a, b)

\* name a comes before name b in the sequence names
Before(names, a, b) ==
    \E i, j \in 1..Len(names) : i < j /\ names[i] = a /\ names[j] = b

\* C8: adjacent runs of a result are in order: by Source, and by Workflow
\* within a Source, in whatever order the directories were listed
C8_Sorted ==
    scanned.called =>
        \A i \in 1..(Len(Runs) - 1) :
            \/ StrLess(Runs[i].Source, Runs[i + 1].Source)
            \/ /\ Runs[i].Source = Runs[i + 1].Source
               /\ StrLeq(Runs[i].Workflow, Runs[i + 1].Workflow)

\* three runs, with the sources and the workflows of source "a" listed in
\* descending order
C8_Witness ==
    /\ scanned.called
    /\ Len(Runs) = 3
    /\ Before(listing[Root], "a", "B")
    /\ Before(listing[<<"a", scanned.date>>], "job2", "job10")
    /\ Runs[1].Source = "B"
    /\ Runs[2].Workflow = "job10"
    /\ Runs[3].Workflow = "job2"

\* C9: a second ScanLogsForDate of the same date on the same tree returns
\* what the first returned: the same runs in the same order, with the same
\* artifacts, flags and statuses
C9_Idempotent ==
    prevScan.called => prevScan = Returned(scanned)

C9_Witness ==
    /\ prevScan.called
    /\ Len(Runs) = 3
    /\ Runs[1].Source = Runs[2].Source
    /\ \E i \in 1..3 : Runs[i].Status = "Failed"
    /\ \E i \in 1..3 : Runs[i].Status = "Completed"

\* C10: no two runs of a result have the same Source, Date and Workflow, and
\* the Date of every run is the date asked for
C10_NaturalKey ==
    scanned.called =>
        /\ \A i, j \in 1..Len(Runs) :
              ( /\ Runs[i].Source = Runs[j].Source
                /\ Runs[i].Date = Runs[j].Date
                /\ Runs[i].Workflow = Runs[j].Workflow ) => i = j
        /\ \A i \in 1..Len(Runs) : Runs[i].Date = scanned.date

\* two runs for the second date, one of them of a workflow that the tree also
\* holds for the first date
C10_Witness ==
    /\ scanned.called
    /\ scanned.date = "2025-01-11"
    /\ Len(Runs) = 2
    /\ <<Runs[1].Source, "2025-01-10", Runs[1].Workflow>> \in DOMAIN fs

-----------------------------------------------------------------------------
(* Properties of ScanLogsForDate on faulty trees, checked under SpecFaults *)

\* the entries of the root that are directories
SourceDirs == { s \in Sources : <<s>> \in DOMAIN fs /\ fs[<<s>>].kind = "dir" }

\* source s has an entry for the date that os.ReadDir cannot list
EnumerationFails(s, date) ==
    /\ <<s, date>> \in DOMAIN fs
    /\ ~(fs[<<s, date>>].kind = "dir" /\ fs[<<s, date>>].readable)

\* the runs of the last scan that belong to source s
RunsOf(s) == { Runs[i] : i \in { j \in DOMAIN Runs : Runs[j].Source = s } }

\* the path was given to logger.LogError during the last scan
Logged(path) == \E i \in DOMAIN scanned.logged : scanned.logged[i] = path

\* the workflow directories source s holds for the date
WorkflowDirsOf(s, date) ==
    { w \in Workflows : /\ <<s, date, w>> \in DOMAIN fs
                        /\ fs[<<s, date, w>>].kind = "dir" }

\* C11: when the root can be listed and the workflow directories of a source
\* cannot be enumerated, the scan returns no error, the failure of that source
\* is logged, the source has no run in the result, and every other source
\* has exactly the runs it has when scanned alone: one for each of its
\* workflow directories
C11_FailingSourceIsolated ==
    (scanned.called /\ ReadDirOk(fs, Root)) =>
        \A s \in SourceDirs :
            EnumerationFails(s, scanned.date) =>
                /\ ~scanned.err
                /\ Logged(<<s, scanned.date>>)
                /\ RunsOf(s) = {}
                /\ \A o \in SourceDirs \ {s} :
                     ~EnumerationFails(o, scanned.date) =>
                        /\ { r.Workflow : r \in RunsOf(o) }
                             = WorkflowDirsOf(o, scanned.date)
                        /\ LET alone == scanSourceForDate(fs, o, scanned.date,
                                                          listing).summaries
                           IN  RunsOf(o) = { alone[i] : i \in DOMAIN alone }

\* a scan in which the first source listed fails and the other one has runs
C11_Witness ==
    /\ scanned.called
    /\ ~scanned.err
    /\ Len(listing[Root]) = 2
    /\ SourceDirs = Sources
    /\ EnumerationFails(listing[Root][1], scanned.date)
    /\ Logged(<<listing[Root][1], scanned.date>>)
    /\ RunsOf(listing[Root][2]) # {}


\* os.ReadDir fails on the root: it is missing, or it cannot be read
RootUnlistable == Root \notin DOMAIN fs \/ ~fs[Root].readable

\* C12: a scan returns an error exactly when the root cannot be listed, and
\* an error comes with no runs; a scan of a listable root in which no source
\* holds a workflow directory for the date returns the empty result and no
\* error
C12_ErrorIffRootUnlistable ==
    scanned.called =>
        /\ scanned.err <=> RootUnlistable
        /\ scanned.err => Runs = <<>>
        /\ (~RootUnlistable
              /\ \A s \in SourceDirs : WorkflowDirsOf(s, scanned.date) = {})
            => (~scanned.err /\ Runs = <<>>)

\* a scan of a listable root that returns the empty result and no error
\* although a source could not be enumerated
C12_Witness ==
    /\ scanned.called
    /\ ~RootUnlistable
    /\ ~scanned.err
    /\ Runs = <<>>
    /\ \E s \in SourceDirs : EnumerationFails(s, scanned.date)


\* C13: for a source directory without an entry for the date,
\* scanSourceForDate returns the empty list and no error, and the scan
\* logs no failure for that source and gives it no run
C13_MissingDateIsEmpty ==
    (scanned.called /\ ~scanned.err) =>
        \A s \in SourceDirs :
            <<s, scanned.date>> \notin DOMAIN fs =>
                /\ scanSourceForDate(fs, s, scanned.date, listing)
                     = [err |-> FALSE, summaries |-> <<>>, logged |-> <<>>]
                /\ ~Logged(<<s, scanned.date>>)
                /\ RunsOf(s) = {}

\* a scan over a source without the date directory, next to a source that
\* has runs for the date
C13_Witness ==
    /\ scanned.called
    /\ ~scanned.err
    /\ \E s \in SourceDirs : <<s, scanned.date>> \notin DOMAIN fs
    /\ Runs # <<>>
    /\ scanned.logged = <<>>

-----------------------------------------------------------------------------
(* Plain files among the directories, checked under SpecFaults *)

\* the path is a plain file
IsPlainFile(path) == path \in DOMAIN fs /\ fs[path].kind = "file"

\* C16: every run of a scan is for a source that is a directory of the root
\* and a workflow that is a directory of the source's date directory; a
\* plain file at either level gives no run, is not logged as a failure, and
\* does not make the scan of a listable root return an error
C16_OnlyDirectories ==
    scanned.called =>
        /\ ~RootUnlistable => ~scanned.err
        /\ \A i \in DOMAIN Runs :
             /\ Runs[i].Source \in SourceDirs
             /\ Runs[i].Workflow \in WorkflowDirsOf(Runs[i].Source, scanned.date)
        /\ \A s \in Sources :
             /\ IsPlainFile(<<s>>) => RunsOf(s) = {} /\ ~Logged(<<s>>)
             /\ \A w \in Workflows :
                  IsPlainFile(<<s, scanned.date, w>>) =>
                     /\ \A r \in RunsOf(s) : r.Workflow # w
                     /\ ~Logged(w)

\* a scan that returns a run from a date directory that also holds a plain
\* file, under a root that also holds a plain file
C16_Witness ==
    /\ scanned.called
    /\ ~scanned.err
    /\ \E s \in Sources : IsPlainFile(<<s>>)
    /\ \E s \in Sources, w \in Workflows :
         /\ IsPlainFile(<<s, scanned.date, w>>)
         /\ RunsOf(s) # {}

-----------------------------------------------------------------------------
(* Properties of the artifact loop, checked under SpecWorkflow *)

\* the artifact of kind t exists and the scanner fails on it: it cannot be
\* opened, or an over-long line is met before the kind's decision is made
ReadFails(t) ==
    /\ Artifact(t) \in DOMAIN fs
    /\ LET f == fs[Artifact(t)]
       IN  \/ ~f.readable
           \/ /\ t = "error.log"
              /\ Len(f.lines) >= 1
              /\ f.lines[1] = TooLong
           \/ /\ t # "error.log"
              /\ \E i \in 1..Len(f.lines) :
                   /\ f.lines[i] = TooLong
                   /\ \A j \in 1..(i - 1) : ~Signals(f.lines[j])

ArtifactOrder == <<"info.log", "error.log", "run.log">>

\* C14: scanWorkflow returns no error; the paths logged are the artifacts
\* that exist and fail, in the order of inspection (a missing artifact is not
\* logged); the entries are the artifacts that exist and do not fail; and the
\* status follows from the entries alone
C14_ArtifactFailuresIsolated ==
    inspected.called =>
        /\ ~inspected.out.err
        /\ inspected.out.logged
             = [i \in 1..Len(SelectSeq(ArtifactOrder, ReadFails))
                  |-> Artifact(SelectSeq(ArtifactOrder, ReadFails)[i])]
        /\ [i \in 1..Len(Run.Logs) |-> Run.Logs[i].LogType]
             = SelectSeq(ArtifactOrder,
                         LAMBDA t : Artifact(t) \in DOMAIN fs /\ ~ReadFails(t))
        /\ Run.HasErrors = SomeEntrySignals
        /\ Run.Status = IF Run.Logs = <<>> THEN "No Logs"
                        ELSE IF SomeEntrySignals THEN "Failed"
                        ELSE IF Retained("run.log") THEN "Completed"
                        ELSE "In Progress"

\* info.log fails and is logged, error.log is missing and is not, and the
\* run is returned as Completed from the run.log that remains
C14_Witness ==
    /\ inspected.called
    /\ ReadFails("info.log")
    /\ Artifact("error.log") \notin DOMAIN fs
    /\ inspected.out.logged = << Artifact("info.log") >>
    /\ Len(Run.Logs) = 1
    /\ Retained("run.log")
    /\ Run.Status = "Completed"

-----------------------------------------------------------------------------
(* Properties of the Logs list, checked under SpecExtras *)

\* the place of kind t in the order general, error, summary
Rank(t) == CHOOSE i \in 1..3 : ArtifactOrder[i] = t

\* the tree without the files of the workflow directory that have other
\* names than the three artifacts
Recognized ==
    [p \in { q \in DOMAIN fs :
               Len(q) = 4 => q[4] \in {"info.log", "error.log", "run.log"} }
        |-> fs[p]]

\* C15: the Logs of a run are at most three entries, each of one of the
\* three kinds and for the file of that name, in the order info.log,
\* error.log, run.log without repetition; and the call returns what it
\* returns when the files with other names are not there
C15_LogsShape ==
    inspected.called =>
        /\ Len(Run.Logs) <= 3
        /\ \A i \in 1..Len(Run.Logs) :
             /\ Run.Logs[i].LogType \in {"info.log", "error.log", "run.log"}
             /\ Run.Logs[i].FilePath = Artifact(Run.Logs[i].LogType)
        /\ \A i, j \in 1..Len(Run.Logs) :
             i < j => Rank(Run.Logs[i].LogType) < Rank(Run.Logs[j].LogType)
        /\ inspected.out = scanWorkflow(Recognized, TheWorkflow[1],
                                        TheWorkflow[2], TheWorkflow[3])

\* a Completed run of a clean info.log and run.log, next to a readable file
\* of another name that holds an error pattern
C15_Witness ==
    /\ inspected.called
    /\ Join(TheWorkflow, "debug.log") \in DOMAIN fs
    /\ fs[Join(TheWorkflow, "debug.log")].readable
    /\ Len(Run.Logs) = 2
    /\ ~Run.HasErrors
    /\ Run.Status = "Completed"

-----------------------------------------------------------------------------
(* Properties of the requests, checked under SpecApi *)

DateText ==
    ("2025-01-10" :> <<"2","0","2","5","-","0","1","-","1","0">>)
    @@ ("2025-01-11" :> <<"2","0","2","5","-","0","1","-","1","1">>)
    @@ ("10-01-2025" :> <<"1","0","-","0","1","-","2","0","2","5">>)

Digits == {"0","1","2","3","4","5","6","7","8","9"}

\* the date parameter is written YYYY-MM-DD
WellFormedDate(d) ==
    /\ Len(DateText[d]) = 10
    /\ DateText[d][5] = "-"
    /\ DateText[d][8] = "-"
    /\ \A i \in {1, 2, 3, 4, 6, 7, 9, 10} : DateText[d][i] \in Digits

\* C17: a scan for a date that is not written YYYY-MM-DD fails, and a search
\* for the empty keyword fails and returns nothing, whatever the tree holds
\* (so without reading it)
C17_InputsRejected ==
    /\ (handled.called /\ handled.date # "" /\ ~WellFormedDate(handled.date))
         => handled.failed
    /\ (searched.called /\ searched.keyword = <<>>)
         => (searched.err /\ searched.results = <<>>)

\* the artifact files of the tree for the day of the search
ArtifactsOf(date) ==
    { p \in FilePaths(fs) : p[2] = date /\ p[4] \in LogTypeSet }

\* the entries of the summaries the search went through
SearchedEntries ==
    UNION { { searched.scan[i].Logs[j] : j \in DOMAIN searched.scan[i].Logs } :
            i \in DOMAIN searched.scan }

\* the path was given to logger.LogError during the last search
SearchLogged(path) == \E i \in DOMAIN searched.logged : searched.logged[i] = path

\* C18: in a search, every artifact of the day that has no entry in the
\* scanned summaries has been logged, and every entry whose file the search
\* skipped because it could not be read has been logged
C18_NoSilentDrop ==
    (searched.called /\ ~searched.err) =>
        /\ \A p \in ArtifactsOf(searched.today) :
             (\A e \in SearchedEntries : e.FilePath # p) => SearchLogged(p)
        /\ \A e \in SearchedEntries :
             GetLogContent(fs, e.FilePath, SearchMaxLines).err
                => SearchLogged(e.FilePath)

\* a run is kept by the filters of the request
Kept(w) ==
    /\ handled.source = "" \/ w.Source = handled.source
    /\ handled.status = "" \/ w.Status = handled.status

\* C20: what filterWorkflows returns is the subsequence, in the order of the
\* input, of the runs that pass both filters, an empty filter passing every
\* run; the input slice is as it was; and with both filters empty the
\* output is the input
C20_FilterIsSubsequence ==
    (handled.called /\ ~handled.failed) =>
        /\ handled.filtered = SelectSeq(handled.summaries, Kept)
        /\ handled.workflows = handled.summaries
        /\ (handled.source = "" /\ handled.status = "")
             => handled.filtered = handled.summaries

\* a request whose status filter keeps the first and the last of three runs
C20_Witness ==
    /\ handled.called
    /\ ~handled.failed
    /\ handled.status # ""
    /\ Len(handled.summaries) = 3
    /\ handled.filtered = << handled.summaries[1], handled.summaries[3] >>

-----------------------------------------------------------------------------
(* Concurrent calls, checked under SpecConcurrent *)

\* what call c returned
ResultOf(c) ==
    [called |-> TRUE, date |-> calls[c].date, err |-> calls[c].err,
     summaries |-> calls[c].summaries, logged |-> calls[c].logged]

\* C19: whatever the interleaving of the steps of two calls on a tree that
\* does not change, a call that has returned has returned a result
\* ScanLogsForDate gives for its date and its listings when run alone
C19_ConcurrentAsAlone ==
    \A c \in Goroutines :
        calls[c].pc = "done" =>
            ResultOf(c) \in ScanLogsForDate(fs, calls[c].date, calls[c].ls)

\* both calls have returned runs, for different dates, and each took a step
\* while the other was inside its loop
C19_Witness ==
    /\ \A c \in Goroutines :
         /\ calls[c].pc = "done"
         /\ calls[c].overlapped
         /\ calls[c].summaries # <<>>
    /\ calls[1].date # calls[2].date

-----------------------------------------------------------------------------
(* Properties of GetLogContent and GetLogTail, checked under SpecContent *)

\* the lines of the file that was read
FileLines == fs[TheFile].lines

\* the file opens and none of its lines exceeds the scanner buffer
Readable ==
    /\ fs[TheFile].readable
    /\ \A i \in 1..Len(FileLines) : FileLines[i] # TooLong

Min(a, b) == IF a <= b THEN a ELSE b
Max(a, b) == IF a >= b THEN a ELSE b

\* C21: GetLogContent on a file it can read returns no error, and whenever
\* it returns no error it returns the lines of the file in file order: all
\* of them for maxLines = 0, the first min(maxLines, number of lines)
\* otherwise
C21_ContentIsPrefix ==
    (read.called /\ read.op = "content") =>
        /\ Readable => ~read.out.err
        /\ ~read.out.err =>
             read.out.lines
               = IF read.n = 0 THEN FileLines
                 ELSE SubSeq(FileLines, 1, Min(read.n, Len(FileLines)))

\* a call that stops at maxLines before the end of the file
C21_Witness ==
    /\ read.called
    /\ read.op = "content"
    /\ Readable
    /\ read.n = 1
    /\ Len(FileLines) = 2
    /\ FileLines[1] # FileLines[2]
    /\ read.out.lines = << FileLines[1] >>


\* the last k lines of the file
LastLines(k) == SubSeq(FileLines, Len(FileLines) - k + 1, Len(FileLines))

\* C22: for a line count n >= 0, GetLogTail on a file it can read returns
\* no error, and whenever it returns no error it returns the last n lines
\* of the file in file order when the file has at least n lines, and all
\* lines of the file when it has fewer
C22_TailIsSuffix ==
    (read.called /\ read.op = "tail" /\ read.n >= 0) =>
        /\ ~read.out.panic
        /\ Readable => ~read.out.err
        /\ ~read.out.err =>
             read.out.lines = IF Len(FileLines) >= read.n
                              THEN LastLines(read.n)
                              ELSE FileLines

\* a call for the last line of a file of two different lines
C22_Witness ==
    /\ read.called
    /\ read.op = "tail"
    /\ Readable
    /\ read.n = 1
    /\ Len(FileLines) = 2
    /\ FileLines[1] # FileLines[2]
    /\ read.out.lines = << FileLines[2] >>

\* C30: for every integer n, GetLogTail on a file it can read does not
\* slice out of range and returns the last min(max(n, 0), number of lines)
\* lines of the file
C30_TailDefinedForAllN ==
    (read.called /\ read.op = "tail" /\ Readable) =>
        /\ ~read.out.panic
        /\ read.out.lines = LastLines(Min(Max(read.n, 0), Len(FileLines)))

-----------------------------------------------------------------------------
(* Properties of the configuration, checked under SpecConfig *)

\* the field of the Config that holds the documented setting v
Setting(c, v) ==
    IF v = "ENV" THEN c.Mode
    ELSE IF v = "HOST" THEN c.Host
    ELSE IF v = "NFS_ROOT" THEN c.NFSRoot
    ELSE IF v = "NFS_ROOT_TEST" THEN c.NFSRootTest
    ELSE c.NFSRootProd

Documented == {"ENV", "HOST", "NFS_ROOT", "NFS_ROOT_TEST", "NFS_ROOT_PROD"}

\* C26: for each documented setting whose environment variable is set when
\* the server starts, the Config LoadConfig returns holds the value of the
\* environment variable, whatever the .env file and the YAML file hold
C26_EnvironmentWins ==
    loaded.called =>
        \A v \in Documented :
            loaded.environ[v] # "" =>
                Setting(loaded.config, v) = loaded.environ[v]

\* C27: after LoadConfig and the --mode flag, GetNFSRoot returns the test
\* path of the Config in mode test and its production path in mode prod
C27_ModeSelectsRoot ==
    loaded.called =>
        /\ loaded.final.Mode = "test"
             => loaded.nfsRoot = loaded.final.NFSRootTest
        /\ loaded.final.Mode = "prod"
             => loaded.nfsRoot = loaded.final.NFSRootProd

-----------------------------------------------------------------------------
(* Properties of SearchLogs, checked under SpecApi *)

\* the results of the last search for the file at path
ResultsFor(path) ==
    { k \in DOMAIN searched.results : searched.results[k].FilePath = path }

\* the line holds the keyword of the last search, letter case ignored
HoldsKeyword(line) ==
    line # TooLong /\ Contains(ToLower(line), ToLower(searched.keyword))

\* C23: the results of a search hold at most one entry for each file of
\* the scanned runs, however many of its lines hold the keyword, and no
\* entry for any other file
C23_OneMatchPerFile ==
    (searched.called /\ ~searched.err) =>
        /\ \A e \in SearchedEntries : Cardinality(ResultsFor(e.FilePath)) <= 1
        /\ \A k \in DOMAIN searched.results :
             \E e \in SearchedEntries :
                e.FilePath = searched.results[k].FilePath

\* a search whose keyword is on two lines of a file, which is in the
\* results once
C23_Witness ==
    /\ searched.called
    /\ searched.keyword # <<>>
    /\ \E e \in SearchedEntries :
         /\ Cardinality({ i \in DOMAIN fs[e.FilePath].lines :
                            HoldsKeyword(fs[e.FilePath].lines[i]) }) >= 2
         /\ Cardinality(ResultsFor(e.FilePath)) = 1


\* the file at path p is an artifact of a workflow directory that the scan
\* and the search can read to the end, and one of its lines holds the keyword
Matchable(p) ==
    /\ p \in FilePaths(fs)
    /\ p[4] \in {"info.log", "error.log", "run.log"}
    /\ fs[p].readable
    /\ \A i \in DOMAIN fs[p].lines : fs[p].lines[i] # TooLong
    /\ \E i \in DOMAIN fs[p].lines : HoldsKeyword(fs[p].lines[i])

C25_EntriesNotMutated ==
    (searched.called /\ ~searched.err) =>
        /\ searched.scan = searched.returned
        /\ \A e \in SearchedEntries : e.Content = <<>>
        /\ \A k \in DOMAIN searched.results :
             /\ [searched.results[k] EXCEPT !.Content = <<>>] \in SearchedEntries
             /\ searched.results[k].Content
                  \in { fs[searched.results[k].FilePath].lines[i] :
                          i \in DOMAIN fs[searched.results[k].FilePath].lines }

\* a search with a result whose Content is a line of text, the entry of the
\* scan for the same file having none
C25_Witness ==
    /\ searched.called
    /\ \E k \in DOMAIN searched.results :
         /\ searched.results[k].Content # <<>>
         /\ \E e \in SearchedEntries :
              /\ e.FilePath = searched.results[k].FilePath
              /\ e.Content = <<>>
              /\ e.HasErrors = searched.results[k].HasErrors


\* the indices of the lines among the first SearchMaxLines of the file at
\* path p that hold the keyword of the last search
HeadHits(p) ==
    { i \in 1..Min(Len(fs[p].lines), SearchMaxLines) :
        HoldsKeyword(fs[p].lines[i]) }

\* result r1 is for an artifact that the scan result has before that of r2:
\* an earlier source, or an earlier workflow of the same source, or an
\* earlier artifact kind of the same run
ScanOrder(r1, r2) ==
    \/ StrLess(r1.Source, r2.Source)
    \/ r1.Source = r2.Source /\ StrLess(r1.Workflow, r2.Workflow)
    \/ /\ r1.Source = r2.Source
       /\ r1.Workflow = r2.Workflow
       /\ Rank(r1.LogType) < Rank(r2.LogType)

\* C28: for each file a search reads to the end of what it reads, only the
\* first SearchMaxLines lines count: the file has a result exactly when one
\* of these lines holds the keyword, letter case ignored, the Content of
\* that result is the first such line, and a keyword that is only on later
\* lines gives no result; the results are in the order of the scan result
\* (source, then workflow, then artifact kind)
C28_FirstMatchInHead ==
    (searched.called /\ ~searched.err) =>
        /\ \A e \in SearchedEntries :
             LET p    == e.FilePath
                 hits == HeadHits(p)
             IN  (fs[p].readable
                    /\ \A i \in DOMAIN fs[p].lines : fs[p].lines[i] # TooLong)
                 => IF hits = {}
                    THEN ResultsFor(p) = {}
                    ELSE \E k \in DOMAIN searched.results :
                            /\ ResultsFor(p) = {k}
                            /\ searched.results[k].Content
                                 = fs[p].lines[Least(hits)]
        /\ \A k1 \in DOMAIN searched.results :
             \A k2 \in DOMAIN searched.results :
                k1 < k2 => ScanOrder(searched.results[k1], searched.results[k2])

\* a search for "needle" over a file of SearchMaxLines + 1 lines that holds
\* the keyword on its last line only, which has no result, and a file whose
\* first line holds the keyword in another letter case, which has that line
\* as result
C28_Witness ==
    /\ searched.called
    /\ ~searched.err
    /\ searched.keyword = <<"n","e","e","d","l","e">>
    /\ \E e \in SearchedEntries :
         /\ Len(fs[e.FilePath].lines) > SearchMaxLines
         /\ HoldsKeyword(fs[e.FilePath].lines[SearchMaxLines + 1])
         /\ HeadHits(e.FilePath) = {}
         /\ ResultsFor(e.FilePath) = {}
    /\ \E k \in DOMAIN searched.results :
         /\ searched.results[k].Content = twoNeedles[1]
         /\ ~Contains(twoNeedles[1], searched.keyword)
    /\ Len(searched.results) >= 3

-----------------------------------------------------------------------------
(* Properties of a scan of a changing tree, checked under SpecRace *)

RaceDone == race.called /\ race.pc = "done"

RaceRuns == { race.summaries[i] : i \in DOMAIN race.summaries }

RaceEntries ==
    UNION { { s.Logs[j] : j \in DOMAIN s.Logs } : s \in RaceRuns }

RaceLogged(path) == \E i \in DOMAIN race.logged : race.logged[i] = path

\* what the call returns when removals hit it: no error; for every path
\* removed between its existence check and its use, the failure is logged
\* and the artifact (for a date directory, every run of the source) is not in
\* the result; every workflow directory and every readable artifact that is
\* still there is in the result; and each run has the HasErrors and Status
\* that its own Logs give it
RaceTolerated ==
    /\ ~race.err
    /\ \A p \in race.hit :
         /\ RaceLogged(p)
         /\ Len(p) = 4 => \A e \in RaceEntries : e.FilePath # p
         /\ Len(p) = 2 => \A s \in RaceRuns : s.Source # p[1]
    /\ \A w \in WorkflowDirs(fs) :
         \E s \in RaceRuns : <<s.Source, s.Date, s.Workflow>> = w
    /\ \A p \in FilePaths(fs) :
         ~detectErrors(fs, p, p[4]).err =>
            \E e \in RaceEntries :
               /\ e.FilePath = p
               /\ e.HasErrors = detectErrors(fs, p, p[4]).hasErrors
    /\ \A s \in RaceRuns :
         /\ s.HasErrors <=> \E j \in DOMAIN s.Logs : s.Logs[j].HasErrors
         /\ s.Status = determineWorkflowStatus(s)
         /\ \A j \in DOMAIN s.Logs :
              s.Logs[j].FilePath
                = <<s.Source, s.Date, s.Workflow, s.Logs[j].LogType>>

\* C29: a scan during which artifact files and date directories are removed
\* ends, and when it has ended it has returned no error, has logged each
\* removal that came between a check and the use, misses only what was
\* removed, and returns runs whose HasErrors and Status agree with their Logs
C29_ScanToleratesRemoval ==
    /\ [](RaceDone => RaceTolerated)
    /\ <>RaceDone

\* a finished scan during which an artifact was removed after scanWorkflow
\* saw it and a date directory after scanSourceForDate saw it, with a run
\* returned for the workflow of the artifact
C29_Witness ==
    /\ RaceDone
    /\ \E p \in race.hit : Len(p) = 2
    /\ \E p \in race.hit :
         /\ Len(p) = 4
         /\ \E s \in RaceRuns : <<s.Source, s.Date, s.Workflow>> = SubSeq(p, 1, 3)

====
